---------------------------- MODULE Spec2Model ----------------------------
(***************************************************************************)
(* Clawlet: the x402 payment broker (x402.ts), the rules engine            *)
(* (rules.ts), the ledger (ledger.ts), the state store (store.ts) and the  *)
(* wallet manager (wallet.ts).                                             *)
(*                                                                         *)
(* The process is a single-threaded event loop: a handler runs without     *)
(* interruption until it awaits.  Each action below is one such segment    *)
(* of a handler, from one suspension point to the next.  Two consecutive   *)
(* segments are merged when the second one reads nothing but the call's    *)
(* own locals before it suspends again.                                    *)
(*                                                                         *)
(* Decimal strings are sequences of one-character strings.                 *)
(***************************************************************************)
EXTENDS Integers, Sequences, FiniteSets, TLC

\* ------------------------------------------------------------- bounds

\* The clock runs from 0 to MaxTime (unix seconds, scaled).
MaxTime == 2
\* Seconds per UTC day in the scaled clock: the date prefix of a timestamp
\* is the timestamp divided by this.
TicksPerDay == 2
\* pay / payPrepare calls started in one run.
MaxPayments == 2
\* Wallets ever created in one run.
MaxWallets == 2

\* ------------------------------------------------------------- constants

\* USDC decimals: the default of enforceRules and the literal 6 of formatUnits.
DECIMALS == 6

\* null, for a field that holds a name (a status, a hash, an error)
NULL == "null"
\* null, for a field that holds a string of characters
NullStr == <<"null">>
\* null, for a field that holds an id; ids count from 1
NoId == 0

\* ------------------------------------------------------------- decimal strings

Digits == <<"0", "1", "2", "3", "4", "5", "6", "7", "8", "9">>

IsDigit(c) == \E i \in 1..10 : Digits[i] = c

DigitVal(c) == CHOOSE d \in 0..9 : Digits[d + 1] = c

RECURSIVE Pow10(_)
Pow10(n) == IF n = 0 THEN 1 ELSE 10 * Pow10(n - 1)

\* BigInt.prototype.toString of a non-negative value.
RECURSIVE NatToStr(_)
NatToStr(n) == IF n < 10 THEN <<Digits[n + 1]>>
               ELSE NatToStr(n \div 10) \o <<Digits[(n % 10) + 1]>>

\* BigInt(digits) of a digit string; the empty string is 0.
RECURSIVE StrToNat(_)
StrToNat(s) == IF s = <<>> THEN 0
               ELSE 10 * StrToNat(SubSeq(s, 1, Len(s) - 1)) + DigitVal(s[Len(s)])

\* String.prototype.padStart(n, "0")
RECURSIVE PadStart(_, _)
PadStart(s, n) == IF Len(s) >= n THEN s ELSE PadStart(<<"0">> \o s, n)

\* String.prototype.padEnd(n, "0")
RECURSIVE PadEnd(_, _)
PadEnd(s, n) == IF Len(s) >= n THEN s ELSE PadEnd(s \o <<"0">>, n)

\* replace(/(0+)$/, "")
RECURSIVE TrimTrailingZeros(_)
TrimTrailingZeros(s) == IF s # <<>> /\ s[Len(s)] = "0"
                        THEN TrimTrailingZeros(SubSeq(s, 1, Len(s) - 1))
                        ELSE s

\* Index of the first "." of s, or 0.
DotIndex(s) == IF \E i \in 1..Len(s) : s[i] = "."
               THEN CHOOSE i \in 1..Len(s) : s[i] = "." /\ \A j \in 1..(i - 1) : s[j] # "."
               ELSE 0

\* viem formatUnits(value, decimals): sign, integer part ("0" when empty),
\* and the fraction with its trailing zeros removed; no "." when the
\* fraction is empty.
FormatUnits(value, decimals) ==
    LET negative == value < 0
        display  == PadStart(NatToStr(IF negative THEN -value ELSE value), decimals)
        integer  == SubSeq(display, 1, Len(display) - decimals)
        fraction == TrimTrailingZeros(SubSeq(display, Len(display) - decimals + 1, Len(display)))
    IN  (IF negative THEN <<"-">> ELSE <<>>)
        \o (IF integer = <<>> THEN <<"0">> ELSE integer)
        \o (IF fraction = <<>> THEN <<>> ELSE <<".">> \o fraction)

\* The strings viem parseUnits accepts: /^(-?)([0-9]*)\.?([0-9]*)$/
ValidDecimal(s) ==
    LET body == IF s # <<>> /\ s[1] = "-" THEN Tail(s) ELSE s
        dot  == DotIndex(body)
    IN  \A i \in 1..Len(body) : IsDigit(body[i]) \/ i = dot

\* viem parseUnits(value, decimals) on a valid string: the fraction loses
\* its trailing zeros, is rounded half up to `decimals` digits when longer
\* (the carry goes into the integer part) and is padded with zeros when
\* shorter.
ParseUnits(s, decimals) ==
    LET negative == s # <<>> /\ s[1] = "-"
        body     == IF negative THEN Tail(s) ELSE s
        dot      == DotIndex(body)
        integer  == IF dot = 0 THEN body ELSE SubSeq(body, 1, dot - 1)
        fraction == TrimTrailingZeros(
                        IF dot = 0 THEN <<"0">> ELSE SubSeq(body, dot + 1, Len(body)))
        kept     == IF Len(fraction) > decimals
                    THEN StrToNat(SubSeq(fraction, 1, decimals))
                         + (IF DigitVal(fraction[decimals + 1]) >= 5 THEN 1 ELSE 0)
                    ELSE StrToNat(PadEnd(fraction, decimals))
        abs      == StrToNat(integer) * Pow10(decimals) + kept
    IN  IF negative THEN -abs ELSE abs


\* ------------------------------------------------------------- inputs

\* Hosts of the URLs a caller passes (before URL parsing lowercases them).
Hosts == { <<"a", "B">>, <<"c">> }

\* Service patterns a caller puts into the allow and block lists.
Patterns == { <<"A">>, <<"b">> }

\* Decimal USDC strings a caller passes as limits.
Limits == { <<"0", ".", "0", "0", "0", "0", "0", "2">>,
            <<"0", ".", "0", "0", "0", "0", "0", "3", "0">> }

\* Atomic amounts an upstream server asks for.
Amounts == {1, 2}

AdapterTypes == {"local-key", "browser"}

NetworkIds == {"base", "base-sepolia"}

CallIds == {"c1", "c2"}

\* ------------------------------------------------------------- state

VARIABLES
    wallets,         \* state.wallets: the list of wallet entries
    activeWalletId,  \* state.activeWalletId
    network,         \* state.network
    disk,            \* the content of state.json
    paymentSessions, \* the session Map, in insertion order
    now,             \* the clock, in seconds
    calls,           \* the pay / payPrepare / payComplete invocations
    nextId,          \* fresh ids: [wallet, tx, session]
    started,         \* pay and payPrepare calls started so far
    alive,           \* FALSE once an exception escaped a timer callback
    pendingAdapter,  \* the adapter configure_adapter stored with setAdapter
    demoMode,        \* DEMO_MODE of the environment of the process
    hist             \* history: what happened to each transaction and session

vars == <<wallets, activeWalletId, network, disk, paymentSessions, now, calls,
          nextId, started, alive, pendingAdapter, demoMode, hist>>

\* ------------------------------------------------------------- constants.ts

CAIP2_BASE == "eip155:8453"
CAIP2_SEPOLIA == "eip155:84532"

\* CHAIN_IDS[network] is defined
KnownChain(net) == net \in {CAIP2_BASE, CAIP2_SEPOLIA}

\* USDC[network].toLowerCase(); an asset is [chain, mixedCase]: the USDC
\* contract address of a chain written in lower or in mixed case, or
\* another contract (chain "other").
UsdcLower(net) == [chain |-> net, mixedCase |-> FALSE]

AssetLower(asset) == [asset EXCEPT !.mixedCase = FALSE]

\* ------------------------------------------------------------- store.ts

Document(ws, act, net) == [wallets |-> ws, activeWalletId |-> act, network |-> net]

\* persist(): the whole document is written to the file.
Persisted(ws, act, net) == Document(ws, act, net)

WalletIndex(ws, id) == IF \E i \in 1..Len(ws) : ws[i].id = id
                       THEN CHOOSE i \in 1..Len(ws) : ws[i].id = id /\ \A j \in 1..(i - 1) : ws[j].id # id
                       ELSE 0

\* getActiveEntry(): index of the active wallet in ws, 0 when there is none.
ActiveIndex(ws, act) == IF act = NoId THEN 0 ELSE WalletIndex(ws, act)

getNetworkCaip2 == IF network = "base-sepolia" THEN CAIP2_SEPOLIA ELSE CAIP2_BASE

\* ------------------------------------------------------------- rules.ts

DEFAULT_RULES == [maxPerTransaction |-> NullStr, dailyCap |-> NullStr,
                  allowedServices |-> <<>>, blockedServices |-> <<>>]

ToLowerChar(c) == CASE c = "A" -> "a" [] c = "B" -> "b" [] c = "C" -> "c" [] OTHER -> c

ToLower(s) == [i \in 1..Len(s) |-> ToLowerChar(s[i])]

\* String.prototype.includes
Includes(s, pat) == \E i \in 0..(Len(s) - Len(pat)) : SubSeq(s, i + 1, i + Len(pat)) = pat

\* new Date().toISOString().slice(0, 10) at time t
DateOf(t) == t \div TicksPerDay

RECURSIVE SumSettledToday(_, _)
SumSettledToday(txs, today) ==
    IF txs = <<>> THEN 0
    ELSE (IF Head(txs).status = "settled" /\ DateOf(Head(txs).timestamp) = today
          THEN ParseUnits(Head(txs).amount, 6) ELSE 0)
         + SumSettledToday(Tail(txs), today)

\* getTodaySpent without the status test: pending and failed records count.
RECURSIVE SumToday(_, _)
SumToday(txs, today) ==
    IF txs = <<>> THEN 0
    ELSE (IF DateOf(Head(txs).timestamp) = today
          THEN ParseUnits(Head(txs).amount, 6) ELSE 0)
         + SumToday(Tail(txs), today)

getTodaySpentAnyStatus(transactions) == SumToday(transactions, DateOf(now))

getTodaySpent(transactions) == SumSettledToday(transactions, DateOf(now))

AnyIncludes(list, service) ==
    \E i \in 1..Len(list) : Includes(ToLower(service), ToLower(list[i]))

\* enforceRules with the allowlist consulted first: a service on the
\* allowlist passes without a look at the blocklist.
enforceEntryAllowFirst(entry, amount, service) ==
    LET rules == entry.rules IN
    IF rules.maxPerTransaction # NullStr
       /\ amount > ParseUnits(rules.maxPerTransaction, DECIMALS)
    THEN "over-per-tx"
    ELSE IF rules.dailyCap # NullStr
            /\ getTodaySpent(entry.transactions) + amount > ParseUnits(rules.dailyCap, DECIMALS)
    THEN "over-daily"
    ELSE IF Len(rules.allowedServices) > 0 /\ AnyIncludes(rules.allowedServices, service)
    THEN "ok"
    ELSE IF Len(rules.allowedServices) > 0
    THEN "not-allowed"
    ELSE IF Len(rules.blockedServices) > 0 /\ AnyIncludes(rules.blockedServices, service)
    THEN "blocked"
    ELSE "ok"

\* enforceRules with the per-transaction comparison made inclusive: an
\* amount equal to the limit is refused.
enforceEntryInclusive(entry, amount, service) ==
    LET rules == entry.rules IN
    IF rules.maxPerTransaction # NullStr
       /\ amount >= ParseUnits(rules.maxPerTransaction, DECIMALS)
    THEN "over-per-tx"
    ELSE IF rules.dailyCap # NullStr
            /\ getTodaySpent(entry.transactions) + amount > ParseUnits(rules.dailyCap, DECIMALS)
    THEN "over-daily"
    ELSE IF Len(rules.blockedServices) > 0 /\ AnyIncludes(rules.blockedServices, service)
    THEN "blocked"
    ELSE IF Len(rules.allowedServices) > 0 /\ ~AnyIncludes(rules.allowedServices, service)
    THEN "not-allowed"
    ELSE "ok"

\* enforceRules on a wallet entry: "ok" or the error it throws.
enforceEntry(entry, amount, service) ==
    LET rules == entry.rules IN
    IF rules.maxPerTransaction # NullStr
       /\ amount > ParseUnits(rules.maxPerTransaction, DECIMALS)
    THEN "over-per-tx"
    ELSE IF rules.dailyCap # NullStr
            /\ getTodaySpent(entry.transactions) + amount > ParseUnits(rules.dailyCap, DECIMALS)
    THEN "over-daily"
    ELSE IF Len(rules.blockedServices) > 0 /\ AnyIncludes(rules.blockedServices, service)
    THEN "blocked"
    ELSE IF Len(rules.allowedServices) > 0 /\ ~AnyIncludes(rules.allowedServices, service)
    THEN "not-allowed"
    ELSE "ok"

\* enforceRules(amountAtomic, service) on the current document.
enforceRules(amount, service) ==
    LET i == ActiveIndex(wallets, activeWalletId) IN
    IF i = 0 THEN "no-active-wallet" ELSE enforceEntry(wallets[i], amount, service)

RuleErrors == {"over-per-tx", "over-daily", "blocked", "not-allowed"}


\* setRules that tests the fields of the patch for null as well: a null
\* leaves the limit as it is.
PatchedRulesSkippingNull(rules, patch) ==
    [f \in DOMAIN rules |->
        IF \E pr \in patch : pr[1] = f /\ pr[2] # NullStr
        THEN (CHOOSE pr \in patch : pr[1] = f)[2]
        ELSE rules[f]]

\* setRules(patch): a field of the patch that is not undefined replaces the
\* rule; a patch is a set of <<field, value>> pairs.
PatchedRules(rules, patch) ==
    [f \in DOMAIN rules |->
        IF \E pr \in patch : pr[1] = f
        THEN (CHOOSE pr \in patch : pr[1] = f)[2]
        ELSE rules[f]]

\* The patches a caller sends.
RulePatches ==
    { {<<"maxPerTransaction", v>>} : v \in Limits \cup {NullStr} }
    \cup { {<<"dailyCap", v>>} : v \in Limits \cup {NullStr} }
    \cup { {<<"allowedServices", v>>} : v \in {<<>>} \cup { <<pt>> : pt \in Patterns } }
    \cup { {<<"blockedServices", v>>} : v \in {<<>>} \cup { <<pt>> : pt \in Patterns } }

\* ------------------------------------------------------------- ledger.ts

TxIndex(txs, id) == IF \E i \in 1..Len(txs) : txs[i].id = id
                    THEN CHOOSE i \in 1..Len(txs) : txs[i].id = id /\ \A j \in 1..(i - 1) : txs[j].id # id
                    ELSE 0

\* addTransaction with the record put in front of the list.
WithTransactionUnshift(ws, act, record) ==
    LET i == ActiveIndex(ws, act) IN
    [ws EXCEPT ![i].transactions = <<record>> \o @]

\* addTransaction that pushes the record onto the list of the first
\* wallet of the document, as the single-wallet document had it.
WithTransactionFirstWallet(ws, act, record) ==
    [ws EXCEPT ![1].transactions = Append(@, record)]

\* addTransaction: the wallets after the record is pushed onto the active
\* wallet's list (the caller has checked that there is an active wallet).
WithTransaction(ws, act, record) ==
    LET i == ActiveIndex(ws, act) IN
    [ws EXCEPT ![i].transactions = Append(@, record)]

\* updateTransaction finds the id in the active wallet's list.
CanUpdate(ws, act, id) ==
    LET i == ActiveIndex(ws, act) IN
    i # 0 /\ TxIndex(ws[i].transactions, id) # 0

\* updateTransaction: each of status, txHash, reason is assigned when the
\* update carries a truthy value for it.
WithUpdate(ws, act, id, update) ==
    LET i == ActiveIndex(ws, act)
        k == TxIndex(ws[i].transactions, id)
        tx == ws[i].transactions[k]
    IN  [ws EXCEPT ![i].transactions[k] =
            [tx EXCEPT !.status = IF update.status # NULL THEN update.status ELSE @,
                       !.txHash = IF update.txHash # NULL THEN update.txHash ELSE @,
                       !.reason = IF update.reason # NULL THEN update.reason ELSE @]]

\* ------------------------------------------------------------- history

\* The wallet that holds transaction id, 0 when none does.
HolderOf(ws, id) ==
    IF \E i \in 1..Len(ws) : TxIndex(ws[i].transactions, id) # 0
    THEN CHOOSE i \in 1..Len(ws) : TxIndex(ws[i].transactions, id) # 0
    ELSE 0

\* The record of transaction id in ws (some wallet holds it).
TxOf(ws, id) ==
    LET i == HolderOf(ws, id) IN ws[i].transactions[TxIndex(ws[i].transactions, id)]

\* History of a new transaction: the atomic amount of the offer, how often
\* its status was written, how many retry requests were sent for it, and
\* the response received to a retry request ("2xx", "other", or NULL).
NewTxHist(amount) == [atomic |-> amount, changes |-> <<>>, retries |-> 0,
                      answered |-> NULL]

\* History of a new session: the payComplete calls that found it, and
\* whether the sweeper marked its transaction.
NewSessionHist(txId) == [tx |-> txId, found |-> 0, swept |-> FALSE]

\* No payment option.
NoOption == [scheme |-> NULL, network |-> NULL,
             asset |-> [chain |-> NULL, mixedCase |-> FALSE],
             amount |-> 0, maxTimeoutSeconds |-> 0]

\* pendingAdapter = null
NoPendingAdapter == [type |-> NULL, credentials |-> NULL]

\* No adapter.
NoAdapter == [wallet |-> NoId, type |-> NULL]

\* A call that has not started: its operation, its position, the locals of
\* the handler (host of the url, adapter, accepted option, txRecord.id,
\* sessionId), its error or response status, and what it did so far: the
\* result of enforceRules, the signTypedData calls, the retry requests,
\* the ledger records appended, the sessions stored, the upstream requests,
\* and whether the active wallet was frozen when the call was made.
IdleCall == [op |-> "none", pc |-> "idle", host |-> <<>>, adapter |-> NoAdapter,
             accepted |-> NoOption, txId |-> NoId, sid |-> NoId, err |-> NULL,
             status |-> 0, enf |-> NULL, signs |-> 0, retries |-> 0,
             appends |-> 0, created |-> 0, requests |-> 0, sawFrozen |-> FALSE,
             headers |-> NULL, body |-> NULL]

\* A handler can be invoked on a call that is not in flight.
Free(p) == calls[p].pc \in {"idle", "done", "failed"}

Fail(c, e) == [c EXCEPT !.pc = "failed", !.err = e]

Init ==
    /\ wallets = <<>>
    /\ activeWalletId = NoId
    /\ network = "base"
    /\ disk = Persisted(<<>>, NoId, "base")
    /\ paymentSessions = <<>>
    /\ now = 0
    /\ calls = [p \in CallIds |-> IdleCall]
    /\ nextId = [wallet |-> 1, tx |-> 1, session |-> 1]
    /\ started = 0
    /\ alive = TRUE
    /\ pendingAdapter = NoPendingAdapter
    /\ demoMode = FALSE
    /\ hist = [tx |-> <<>>, session |-> <<>>, removed |-> <<>>]


\* ------------------------------------------------------------- wallet.ts

\* `Wallet ${n}`
DefaultLabel(n) == [text |-> "Wallet", num |-> n]

\* A label the caller chose.
CustomLabel(text) == [text |-> text, num |-> 0]

\* No agentIdentity on the entry.
NoIdentity == [name |-> NULL, agentId |-> NULL]

NewEntry(id, type) == [id |-> id, label |-> DefaultLabel(id), frozen |-> FALSE,
                       adapter |-> type, rules |-> DEFAULT_RULES, transactions |-> <<>>,
                       agentIdentity |-> NoIdentity]

\* createWallet, from the return of adapter.createWallet() on.
CreateWallet(type) ==
    /\ alive
    /\ nextId.wallet <= MaxWallets
    /\ wallets' = Append(wallets, [NewEntry(nextId.wallet, type) EXCEPT
                                        !.label = DefaultLabel(Len(wallets) + 1)])
    /\ activeWalletId' = nextId.wallet
    /\ nextId' = [nextId EXCEPT !.wallet = @ + 1]
    /\ disk' = Persisted(wallets', activeWalletId', network)
    /\ UNCHANGED <<network, paymentSessions, now, calls, started, alive, hist>>
    /\ UNCHANGED <<pendingAdapter, demoMode>>

\* switchWallet(walletId) for an id of the list; another id throws.
SwitchWallet(id) ==
    /\ alive
    /\ WalletIndex(wallets, id) # 0
    /\ activeWalletId' = id
    /\ disk' = Persisted(wallets, activeWalletId', network)
    /\ UNCHANGED <<wallets, network, paymentSessions, now, calls, nextId, started, alive, hist>>
    /\ UNCHANGED <<pendingAdapter, demoMode>>

\* splice that drops the head of the list, whatever the index.
SplicedHead(ws, i) == Tail(ws)

\* The list without its element i (splice(idx, 1)).
Spliced(ws, i) == SubSeq(ws, 1, i - 1) \o SubSeq(ws, i + 1, Len(ws))

\* removeWallet without the reset of activeWalletId.
ActiveKept(remaining, act, id) == act

\* activeWalletId after removeWallet(id): when the removed wallet was the
\* active one, state.wallets[0]?.id ?? null of the remaining list.
ActiveAfterRemove(remaining, act, id) ==
    IF act = id
    THEN (IF remaining = <<>> THEN NoId ELSE remaining[1].id)
    ELSE act

\* removeWallet(walletId) for an id of the list; another id throws.  The
\* history notes the removed id and whether it was the active wallet.
RemoveWallet(id) ==
    /\ alive
    /\ WalletIndex(wallets, id) # 0
    /\ wallets' = Spliced(wallets, WalletIndex(wallets, id))
    /\ activeWalletId' = ActiveAfterRemove(wallets', activeWalletId, id)
    /\ disk' = Persisted(wallets', activeWalletId', network)
    /\ hist' = [hist EXCEPT !.removed = Append(@, [id |-> id, wasActive |-> activeWalletId = id])]
    /\ UNCHANGED <<network, paymentSessions, now, calls, nextId, started, alive>>
    /\ UNCHANGED <<pendingAdapter, demoMode>>

\* freezeWallet() and unfreezeWallet() with an active wallet.
SetFrozen(flag) ==
    /\ alive
    /\ ActiveIndex(wallets, activeWalletId) # 0
    /\ wallets' = [wallets EXCEPT ![ActiveIndex(wallets, activeWalletId)].frozen = flag]
    /\ disk' = Persisted(wallets', activeWalletId, network)
    /\ UNCHANGED <<activeWalletId, network, paymentSessions, now, calls, nextId, started, alive, hist>>
    /\ UNCHANGED <<pendingAdapter, demoMode>>

\* setRules(patch) with an active wallet.
SetRules(patch) ==
    /\ alive
    /\ ActiveIndex(wallets, activeWalletId) # 0
    /\ wallets' = [wallets EXCEPT ![ActiveIndex(wallets, activeWalletId)].rules =
                        PatchedRules(@, patch)]
    /\ disk' = Persisted(wallets', activeWalletId, network)
    /\ UNCHANGED <<activeWalletId, network, paymentSessions, now, calls, nextId, started, alive, hist>>
    /\ UNCHANGED <<pendingAdapter, demoMode>>

\* setNetwork that does not write the state file.
SetNetworkUnpersisted(net) ==
    /\ alive
    /\ network' = net
    /\ UNCHANGED <<wallets, activeWalletId, disk, paymentSessions, now, calls, nextId,
                   started, alive, hist>>
    /\ UNCHANGED <<pendingAdapter, demoMode>>

\* setNetwork(network)
SetNetwork(net) ==
    /\ alive
    /\ network' = net
    /\ disk' = Persisted(wallets, activeWalletId, network')
    /\ UNCHANGED <<wallets, activeWalletId, paymentSessions, now, calls, nextId, started, alive, hist>>
    /\ UNCHANGED <<pendingAdapter, demoMode>>

\* Time passes.
Tick ==
    /\ alive
    /\ now < MaxTime
    /\ now' = now + 1
    /\ UNCHANGED <<wallets, activeWalletId, network, disk, paymentSessions, calls,
                   nextId, started, alive, hist>>
    /\ UNCHANGED <<pendingAdapter, demoMode>>


\* ------------------------------------------------------------- x402.ts

\* A payment option of a 402 document.
Option(net, amount) == [scheme |-> "exact", network |-> net,
                        asset |-> [chain |-> net, mixedCase |-> TRUE],
                        amount |-> amount, maxTimeoutSeconds |-> 1]

\* The accepts lists of the 402 documents an upstream server sends.
AcceptsLists ==
    { <<Option(CAIP2_BASE, a)>> : a \in Amounts }
    \cup { <<Option(CAIP2_SEPOLIA, 1)>> }
    \cup { <<[Option(CAIP2_BASE, 1) EXCEPT !.scheme = "upto"]>> }

\* A response that is not 402, with its status, headers and body.
Plain(status, headers, body) ==
    [kind |-> "status", accepts |-> <<>>, status |-> status, headers |-> headers, body |-> body]

\* The request failed without a response.
TransportError ==
    [kind |-> "error", accepts |-> <<>>, status |-> 0, headers |-> NULL, body |-> NULL]

\* A 402 response with a payment-required document.
PaymentRequired(accepts) ==
    [kind |-> "402", accepts |-> accepts, status |-> 402, headers |-> NULL, body |-> NULL]

\* What the initial request ends with: a response that is not 402, a 402
\* with a payment-required document, or a transport error.
InitialResponses ==
    { Plain(200, "h", "b"), TransportError }
    \cup { PaymentRequired(a) : a \in AcceptsLists }

\* What the retry request ends with: a response (ok: 2xx) with or without
\* a receipt that carries a transaction hash, or a transport error.
RetryResponses ==
    { [kind |-> "status", ok |-> TRUE, receipt |-> TRUE],
      [kind |-> "status", ok |-> TRUE, receipt |-> FALSE],
      [kind |-> "status", ok |-> FALSE, receipt |-> FALSE],
      [kind |-> "error", ok |-> FALSE, receipt |-> FALSE] }

\* findAcceptedOption that looks only at the options on the selected
\* network.
findAcceptedOptionOnSelectedNetwork(accepts) ==
    LET matching == { i \in 1..Len(accepts) :
                        /\ accepts[i].scheme = "exact"
                        /\ KnownChain(accepts[i].network)
                        /\ AssetLower(accepts[i].asset) = UsdcLower(accepts[i].network)
                        /\ accepts[i].network = getNetworkCaip2 }
    IN  IF matching = {} THEN NoOption
        ELSE accepts[CHOOSE i \in matching : \A j \in matching : i <= j]

RECURSIVE findAcceptedOption(_)
findAcceptedOption(accepts) ==
    IF accepts = <<>> THEN NoOption
    ELSE LET option == Head(accepts) IN
         IF /\ option.scheme = "exact"
            /\ KnownChain(option.network)
            /\ AssetLower(option.asset) = UsdcLower(option.network)
         THEN option
         ELSE findAcceptedOption(Tail(accepts))

\* new URL(url).hostname
Hostname(host) == ToLower(host)

\* negotiate with the error of enforceRules swallowed.
NegotiateIgnoringRules(resp, host, enf) ==
    IF resp.kind = "error" THEN "upstream-error"
    ELSE IF resp.kind = "status" THEN "passthrough"
    ELSE IF findAcceptedOption(resp.accepts) = NoOption THEN "no-compatible-option"
    ELSE IF findAcceptedOption(resp.accepts).network # getNetworkCaip2 THEN "network-mismatch"
    ELSE "payment"

\* negotiate without its network guard.
NegotiateWithoutNetworkGuard(resp, host, enf) ==
    IF resp.kind = "error" THEN "upstream-error"
    ELSE IF resp.kind = "status" THEN "passthrough"
    ELSE IF findAcceptedOption(resp.accepts) = NoOption THEN "no-compatible-option"
    ELSE IF enf \in RuleErrors THEN enf
    ELSE "payment"

\* negotiate without the test of the status: every response is parsed
\* for a payment-required document.
NegotiateWithoutStatusTest(resp, host, enf) ==
    IF resp.kind = "error" THEN "upstream-error"
    ELSE IF findAcceptedOption(resp.accepts) = NoOption THEN "no-compatible-option"
    ELSE IF findAcceptedOption(resp.accepts).network # getNetworkCaip2 THEN "network-mismatch"
    ELSE IF enf # "ok" THEN enf
    ELSE "payment"

\* negotiate, from the response of the initial request on: "passthrough",
\* "payment", or the error it throws.  enf is the result of enforceRules.
NegotiateResult(resp, host, enf) ==
    IF resp.kind = "error" THEN "upstream-error"
    ELSE IF resp.kind = "status" THEN "passthrough"
    ELSE IF findAcceptedOption(resp.accepts) = NoOption THEN "no-compatible-option"
    ELSE IF findAcceptedOption(resp.accepts).network # getNetworkCaip2 THEN "network-mismatch"
    ELSE IF enf # "ok" THEN enf
    ELSE "payment"

\* Whether negotiate reaches its step 5 (enforceRules) on this response.
ReachesRules(resp) ==
    /\ resp.kind = "402"
    /\ findAcceptedOption(resp.accepts) # NoOption
    /\ findAcceptedOption(resp.accepts).network = getNetworkCaip2

\* The head of x402Fetch without the frozen check.
GateErrorWithoutFrozen(ws, i) == IF i = 0 THEN "no-active-wallet" ELSE NULL

\* The check at the head of x402Fetch and x402Prepare on wallet i (0: no
\* active wallet): the error thrown, or NULL.
GateError(ws, i) ==
    IF i = 0 THEN "no-active-wallet"
    ELSE IF ws[i].frozen THEN "frozen"
    ELSE NULL

\* x402Fetch and x402Prepare up to the initial request of negotiate.
StartPayment(p, op, host) ==
    LET i == ActiveIndex(wallets, activeWalletId)
        e == GateError(wallets, i)
        c == [IdleCall EXCEPT !.op = op, !.host = host,
                              !.sawFrozen = (i # 0 /\ wallets[i].frozen)]
    IN
    /\ alive
    /\ Free(p)
    /\ started < MaxPayments
    /\ started' = started + 1
    /\ calls' = [calls EXCEPT ![p] =
            IF e # NULL THEN Fail(c, e)
            ELSE [c EXCEPT !.pc = "awaitUpstream", !.requests = 1,
                           !.adapter = [wallet |-> wallets[i].id, type |-> wallets[i].adapter]]]
    /\ UNCHANGED <<wallets, activeWalletId, network, disk, paymentSessions, now,
                   nextId, alive, hist>>
    /\ UNCHANGED <<pendingAdapter, demoMode>>

x402FetchStart(p, host) == StartPayment(p, "pay", host)

x402PrepareStart(p, host) == StartPayment(p, "prepare", host)

\* The pending record of addTransaction.
PendingRecord(id, service, option) ==
    [id |-> id, timestamp |-> now, service |-> service,
     amount |-> FormatUnits(option.amount, 6), network |-> option.network,
     txHash |-> NULL, status |-> "pending", reason |-> "x402 payment"]

\* x402Fetch from the response of the initial request to the call of
\* adapter.signTypedData in signPayment.
x402FetchNegotiated(p, resp) ==
    LET c   == calls[p]
        enf == IF ReachesRules(resp)
               THEN enforceRules(findAcceptedOption(resp.accepts).amount, Hostname(c.host))
               ELSE NULL
        r   == NegotiateResult(resp, c.host, enf)
        c1  == [c EXCEPT !.enf = enf, !.accepted = findAcceptedOption(resp.accepts)]
    IN
    /\ alive
    /\ c.op = "pay" /\ c.pc = "awaitUpstream"
    /\ calls' = [calls EXCEPT ![p] =
            IF r = "passthrough"
            THEN [c1 EXCEPT !.pc = "done", !.status = resp.status,
                            !.headers = resp.headers, !.body = resp.body]
            ELSE IF r # "payment" THEN Fail(c1, r)
            ELSE [c1 EXCEPT !.pc = "awaitSign", !.signs = @ + 1]]
    /\ UNCHANGED <<wallets, activeWalletId, network, disk, paymentSessions, now,
                   nextId, started, alive, hist>>
    /\ UNCHANGED <<pendingAdapter, demoMode>>

\* signTypedData of an adapter that signs whatever its kind.
SignatureOfAnyAdapter(adapter) == "0xsig"

\* adapter.signTypedData: the browser adapter always throws, the local key
\* signs.
SignatureOf(adapter) == IF adapter.type = "browser" THEN NULL ELSE "0xsig"

\* The retry request of retryWithPayment is sent for transaction id.
RetrySent(h, id) == [h EXCEPT !.tx[id].retries = @ + 1]

\* x402Fetch from the return of adapter.signTypedData to the retry request
\* of retryWithPayment.
x402FetchSigned(p) ==
    LET c  == calls[p]
        id == nextId.tx
    IN
    /\ alive
    /\ c.op = "pay" /\ c.pc = "awaitSign"
    /\ IF SignatureOf(c.adapter) = NULL
       THEN /\ calls' = [calls EXCEPT ![p] = Fail(c, "must-sign-client-side")]
            /\ UNCHANGED <<wallets, disk, nextId, hist>>
       ELSE IF ActiveIndex(wallets, activeWalletId) = 0
       THEN /\ calls' = [calls EXCEPT ![p] = Fail(c, "no-active-wallet")]
            /\ UNCHANGED <<wallets, disk, nextId, hist>>
       ELSE /\ wallets' = WithTransaction(wallets, activeWalletId,
                              PendingRecord(id, Hostname(c.host), c.accepted))
            /\ disk' = Persisted(wallets', activeWalletId, network)
            /\ nextId' = [nextId EXCEPT !.tx = @ + 1]
            /\ hist' = RetrySent([hist EXCEPT !.tx = Append(@, NewTxHist(c.accepted.amount))], id)
            /\ calls' = [calls EXCEPT ![p] =
                    [c EXCEPT !.pc = "awaitRetry", !.txId = id, !.appends = @ + 1,
                              !.retries = @ + 1, !.requests = @ + 1]]
    /\ UNCHANGED <<activeWalletId, network, paymentSessions, now, started, alive>>
    /\ UNCHANGED <<pendingAdapter, demoMode>>


\* x402Prepare from the response of the initial request to its return.
x402PrepareNegotiated(p, resp) ==
    LET c   == calls[p]
        enf == IF ReachesRules(resp)
               THEN enforceRules(findAcceptedOption(resp.accepts).amount, Hostname(c.host))
               ELSE NULL
        r   == NegotiateResult(resp, c.host, enf)
        acc == findAcceptedOption(resp.accepts)
        c1  == [c EXCEPT !.enf = enf, !.accepted = acc]
        id  == nextId.tx
        sid == nextId.session
    IN
    /\ alive
    /\ c.op = "prepare" /\ c.pc = "awaitUpstream"
    /\ IF r # "payment"
       THEN /\ calls' = [calls EXCEPT ![p] =
                    Fail(c1, IF r = "passthrough" THEN "not-402" ELSE r)]
            /\ UNCHANGED <<wallets, disk, paymentSessions, nextId, hist>>
       ELSE IF ActiveIndex(wallets, activeWalletId) = 0
       THEN /\ calls' = [calls EXCEPT ![p] = Fail(c1, "no-active-wallet")]
            /\ UNCHANGED <<wallets, disk, paymentSessions, nextId, hist>>
       ELSE /\ wallets' = WithTransaction(wallets, activeWalletId,
                              PendingRecord(id, Hostname(c.host), acc))
            /\ disk' = Persisted(wallets', activeWalletId, network)
            /\ paymentSessions' = Append(paymentSessions,
                    [id |-> sid, host |-> c.host, accepted |-> acc,
                     txRecordId |-> id, expiresAt |-> now + acc.maxTimeoutSeconds])
            /\ nextId' = [nextId EXCEPT !.tx = @ + 1, !.session = @ + 1]
            /\ hist' = [hist EXCEPT !.tx = Append(@, NewTxHist(acc.amount)),
                                    !.session = Append(@, NewSessionHist(id))]
            /\ calls' = [calls EXCEPT ![p] =
                    [c1 EXCEPT !.pc = "done", !.txId = id,
                               !.sid = sid, !.appends = @ + 1, !.created = @ + 1]]
    /\ UNCHANGED <<activeWalletId, network, now, started, alive>>
    /\ UNCHANGED <<pendingAdapter, demoMode>>

\* paymentSessions.get(sessionId): the index in the table, 0 when absent.
SessionIndex(sessions, sid) ==
    IF \E i \in 1..Len(sessions) : sessions[i].id = sid
    THEN CHOOSE i \in 1..Len(sessions) : sessions[i].id = sid
    ELSE 0

\* paymentSessions.delete(id)
WithoutSession(sessions, sid) ==
    LET i == SessionIndex(sessions, sid) IN
    IF i = 0 THEN sessions
    ELSE SubSeq(sessions, 1, i - 1) \o SubSeq(sessions, i + 1, Len(sessions))

\* x402Complete without the delete before the retry.
SessionsKept(sessions, sid) == sessions

\* The session table once x402Complete has taken the session for its retry
\* (the delete before retryWithPayment).
SessionsAfterTake(sessions, sid) == WithoutSession(sessions, sid)

\* now > session.expiresAt
Expired(session) == now > session.expiresAt

ExpiredUpdate == [status |-> "failed", txHash |-> NULL, reason |-> "Payment session expired"]

\* The status a successful updateTransaction wrote is added to the history.
StatusWritten(h, id, status) == [h EXCEPT !.tx[id].changes = Append(@, status)]

\* The error updateTransaction throws when it cannot find the record.
UpdateError(ws, act) ==
    IF ActiveIndex(ws, act) = 0 THEN "no-active-wallet" ELSE "tx-not-found"

\* x402Complete(sessionId, signature) up to the retry request of
\* retryWithPayment.
x402CompleteStart(p, sid) ==
    LET i == SessionIndex(paymentSessions, sid)
        session == paymentSessions[i]
        a == ActiveIndex(wallets, activeWalletId)
        c == [IdleCall EXCEPT !.op = "complete", !.sid = sid,
                              !.sawFrozen = (a # 0 /\ wallets[a].frozen)]
    IN
    /\ alive
    /\ Free(p)
    /\ sid \in 1..(nextId.session - 1)
    /\ IF i = 0
       THEN /\ calls' = [calls EXCEPT ![p] = Fail(c, "session-not-found")]
            /\ UNCHANGED <<wallets, disk, paymentSessions, hist>>
       ELSE IF Expired(session)
       THEN /\ paymentSessions' = WithoutSession(paymentSessions, sid)
            /\ IF CanUpdate(wallets, activeWalletId, session.txRecordId)
               THEN /\ wallets' = WithUpdate(wallets, activeWalletId,
                                             session.txRecordId, ExpiredUpdate)
                    /\ disk' = Persisted(wallets', activeWalletId, network)
                    /\ hist' = StatusWritten([hist EXCEPT !.session[sid].found = @ + 1],
                                             session.txRecordId, "failed")
                    /\ calls' = [calls EXCEPT ![p] =
                            Fail([c EXCEPT !.txId = session.txRecordId], "session-expired")]
               ELSE /\ hist' = [hist EXCEPT !.session[sid].found = @ + 1]
                    /\ calls' = [calls EXCEPT ![p] =
                            Fail([c EXCEPT !.txId = session.txRecordId],
                                 UpdateError(wallets, activeWalletId))]
                    /\ UNCHANGED <<wallets, disk>>
       ELSE /\ paymentSessions' = SessionsAfterTake(paymentSessions, sid)
            /\ hist' = RetrySent([hist EXCEPT !.session[sid].found = @ + 1],
                                 session.txRecordId)
            /\ calls' = [calls EXCEPT ![p] =
                    [c EXCEPT !.pc = "awaitRetry", !.host = session.host,
                              !.accepted = session.accepted,
                              !.txId = session.txRecordId,
                              !.retries = @ + 1, !.requests = @ + 1]]
            /\ UNCHANGED <<wallets, disk>>
    /\ UNCHANGED <<activeWalletId, network, now, nextId, started, alive>>
    /\ UNCHANGED <<pendingAdapter, demoMode>>

\* The update retryWithPayment makes for a response.
RetryUpdate(resp) ==
    IF resp.ok
    THEN [status |-> "settled", txHash |-> IF resp.receipt THEN "0xab" ELSE NULL, reason |-> NULL]
    ELSE [status |-> "failed", txHash |-> NULL, reason |-> NULL]

\* retryResponse.ok, for the history
Answer(resp) == IF resp.ok THEN "2xx" ELSE "other"

\* retryWithPayment from the end of its request on, in x402Fetch and in
\* x402Complete.
RetryReturned(p, resp) ==
    LET c == calls[p] IN
    /\ alive
    /\ c.pc = "awaitRetry"
    /\ IF resp.kind = "error"
       THEN /\ calls' = [calls EXCEPT ![p] = Fail(c, "upstream-error")]
            /\ UNCHANGED <<wallets, disk, hist>>
       ELSE IF ~CanUpdate(wallets, activeWalletId, c.txId)
       THEN /\ calls' = [calls EXCEPT ![p] = Fail(c, UpdateError(wallets, activeWalletId))]
            /\ hist' = [hist EXCEPT !.tx[c.txId].answered = Answer(resp)]
            /\ UNCHANGED <<wallets, disk>>
       ELSE /\ wallets' = WithUpdate(wallets, activeWalletId, c.txId, RetryUpdate(resp))
            /\ disk' = Persisted(wallets', activeWalletId, network)
            /\ hist' = StatusWritten([hist EXCEPT !.tx[c.txId].answered = Answer(resp)],
                                     c.txId, RetryUpdate(resp).status)
            /\ calls' = [calls EXCEPT ![p] =
                    [c EXCEPT !.pc = "done", !.status = IF resp.ok THEN 200 ELSE 402]]
    /\ UNCHANGED <<activeWalletId, network, paymentSessions, now, nextId, started, alive>>
    /\ UNCHANGED <<pendingAdapter, demoMode>>

\* cleanupSessions, from session i of the table on: the table, the
\* wallets and the history when it returns or throws.
RECURSIVE SweepFrom(_, _, _, _)
SweepFrom(i, sessions, ws, h) ==
    IF i > Len(sessions) THEN [sessions |-> sessions, wallets |-> ws, hist |-> h, threw |-> FALSE]
    ELSE IF ~Expired(sessions[i]) THEN SweepFrom(i + 1, sessions, ws, h)
    ELSE IF ~CanUpdate(ws, activeWalletId, sessions[i].txRecordId)
    THEN [sessions |-> sessions, wallets |-> ws, hist |-> h, threw |-> TRUE]
    ELSE SweepFrom(i, WithoutSession(sessions, sessions[i].id),
                   WithUpdate(ws, activeWalletId, sessions[i].txRecordId, ExpiredUpdate),
                   StatusWritten([h EXCEPT !.session[sessions[i].id].swept = TRUE],
                                 sessions[i].txRecordId, "failed"))

\* One run of cleanupSessions from the timer.  An exception that escapes
\* the timer callback ends the process.
cleanupSessions ==
    LET r == SweepFrom(1, paymentSessions, wallets, hist) IN
    /\ alive
    /\ paymentSessions' = r.sessions
    /\ wallets' = r.wallets
    /\ disk' = IF r.wallets # wallets THEN Persisted(r.wallets, activeWalletId, network) ELSE disk
    /\ hist' = r.hist
    /\ alive' = ~r.threw
    /\ UNCHANGED <<activeWalletId, network, now, calls, nextId, started>>
    /\ UNCHANGED <<pendingAdapter, demoMode>>


\* ------------------------------------------------------------- specifications

\* The 402 documents of the specifications that are not about negotiation.
FlowResponses ==
    { Plain(200, "h", "b"), TransportError, PaymentRequired(<<Option(CAIP2_BASE, 1)>>) }

FlowHosts == { <<"c">> }

\* The broker: concurrent calls, the session table and its sweeper, and the
\* wallet operations that change the active wallet.
Next ==
    \/ CreateWallet("local-key")
    \/ \E id \in 1..MaxWallets : SwitchWallet(id)
    \/ Tick
    \/ \E p \in CallIds, h \in FlowHosts : x402FetchStart(p, h)
    \/ \E p \in CallIds, resp \in FlowResponses : x402FetchNegotiated(p, resp)
    \/ \E p \in CallIds : x402FetchSigned(p)
    \/ \E p \in CallIds, h \in FlowHosts : x402PrepareStart(p, h)
    \/ \E p \in CallIds, resp \in FlowResponses : x402PrepareNegotiated(p, resp)
    \/ \E p \in CallIds, sid \in 1..MaxPayments : x402CompleteStart(p, sid)
    \/ \E p \in CallIds, resp \in RetryResponses : RetryReturned(p, resp)
    \/ cleanupSessions

Spec == Init /\ [][Next]_vars

\* The state after startup on a state file that holds one local-key wallet
\* with the default rules and an empty ledger.
InitOneWallet ==
    /\ wallets = <<NewEntry(1, "local-key")>>
    /\ activeWalletId = 1
    /\ network = "base"
    /\ disk = Persisted(wallets, 1, "base")
    /\ paymentSessions = <<>>
    /\ now = 0
    /\ calls = [p \in CallIds |-> IdleCall]
    /\ nextId = [wallet |-> 2, tx |-> 1, session |-> 1]
    /\ started = 0
    /\ alive = TRUE
    /\ pendingAdapter = NoPendingAdapter
    /\ demoMode = FALSE
    /\ hist = [tx |-> <<>>, session |-> <<>>, removed |-> <<>>]

\* The retry responses of the specifications that are not about receipts.
PlainRetryResponses == { r \in RetryResponses : r.kind = "status" /\ r.receipt = r.ok }

\* The rules engine: one wallet, its rules edited between the payments of
\* one caller.
NextRules ==
    \/ \E patch \in RulePatches : SetRules(patch)
    \/ Tick
    \/ \E h \in Hosts : x402FetchStart("c1", h)
    \/ \E resp \in InitialResponses : x402FetchNegotiated("c1", resp)
    \/ x402FetchSigned("c1")
    \/ \E h \in Hosts : x402PrepareStart("c1", h)
    \/ \E resp \in InitialResponses : x402PrepareNegotiated("c1", resp)
    \/ \E resp \in PlainRetryResponses : RetryReturned("c1", resp)

SpecRules == InitOneWallet /\ [][NextRules]_vars

\* The freeze gate: wallets of both adapter kinds, frozen and unfrozen
\* between the payments of one caller.
NextGate ==
    \/ \E t \in AdapterTypes : CreateWallet(t)
    \/ \E id \in 1..MaxWallets : SwitchWallet(id)
    \/ \E f \in BOOLEAN : SetFrozen(f)
    \/ \E h \in FlowHosts : x402FetchStart("c1", h)
    \/ \E resp \in FlowResponses : x402FetchNegotiated("c1", resp)
    \/ x402FetchSigned("c1")
    \/ \E h \in FlowHosts : x402PrepareStart("c1", h)
    \/ \E resp \in FlowResponses : x402PrepareNegotiated("c1", resp)
    \/ \E sid \in 1..MaxPayments : x402CompleteStart("c1", sid)
    \/ \E resp \in PlainRetryResponses : RetryReturned("c1", resp)

SpecGate == Init /\ [][NextGate]_vars


\* ------------------------------------------------------------- claims

\* What the call did besides its initial request: nothing.
NoTrace(c) ==
    /\ c.signs = 0 /\ c.created = 0 /\ c.retries = 0 /\ c.appends = 0
    /\ c.txId = NoId

\* C1: when the rules engine rejects the payment of a pay or payPrepare
\* call, the call fails with that rule error, and it has made no signing
\* call, created no session, sent no retry request and written no ledger
\* record.
C1_RuleRejectionLeavesNoTrace ==
    \A p \in CallIds :
        calls[p].enf \in RuleErrors =>
            /\ calls[p].pc = "failed"
            /\ calls[p].err = calls[p].enf
            /\ calls[p].requests = 1
            /\ NoTrace(calls[p])

C1_Witness ==
    \E p \in CallIds :
        /\ calls[p].op = "prepare"
        /\ calls[p].pc = "failed"
        /\ calls[p].enf = "blocked"
        /\ Len(hist.tx) > 0

\* C2: pay or payPrepare invoked while the active wallet is frozen fails
\* with the frozen error, and it has made no upstream request and no
\* signing call, created no session and written no ledger record.
C2_FrozenGate ==
    \A p \in CallIds :
        (calls[p].op \in {"pay", "prepare"} /\ calls[p].sawFrozen) =>
            /\ calls[p].pc = "failed"
            /\ calls[p].err = "frozen"
            /\ calls[p].requests = 0
            /\ NoTrace(calls[p])

C2_Witness ==
    \E p \in CallIds :
        /\ calls[p].sawFrozen
        /\ calls[p].op = "pay"
        /\ calls[p].err = "frozen"
        /\ Len(wallets) = 2

\* X * 10^6 for the limits X of the model.
LimitTimesMillion(x) ==
    IF x = <<"0", ".", "0", "0", "0", "0", "0", "2">> THEN 2 ELSE 3

\* S: the atomic amounts (as the upstream server stated them) of the
\* settled transactions of the list that are dated today.
RECURSIVE SettledTodayAtomic(_)
SettledTodayAtomic(txs) ==
    IF txs = <<>> THEN 0
    ELSE (IF Head(txs).status = "settled" /\ Head(txs).timestamp \div TicksPerDay = now \div TicksPerDay
          THEN hist.tx[Head(txs).id].atomic ELSE 0)
         + SettledTodayAtomic(Tail(txs))

\* No rule other than the daily cap is violated.
OtherRulesPass(rules, amount, service) ==
    /\ rules.maxPerTransaction = NullStr \/ amount <= LimitTimesMillion(rules.maxPerTransaction)
    /\ ~AnyIncludes(rules.blockedServices, service)
    /\ rules.allowedServices = <<>> \/ AnyIncludes(rules.allowedServices, service)

\* C3: with dailyCap = X on the active wallet and S atomic units settled
\* today, enforce passes at S + amount = X * 10^6 and fails with over-daily
\* at S + amount = X * 10^6 + 1, when no other rule is violated.
C3_DailyCapBoundary ==
    LET i == ActiveIndex(wallets, activeWalletId) IN
    (i # 0 /\ wallets[i].rules.dailyCap # NullStr) =>
        LET x == LimitTimesMillion(wallets[i].rules.dailyCap)
            spent == SettledTodayAtomic(wallets[i].transactions)
        IN  \A amount \in 0..4, h \in Hosts :
                OtherRulesPass(wallets[i].rules, amount, Hostname(h)) =>
                    /\ spent + amount = x => enforceRules(amount, Hostname(h)) = "ok"
                    /\ spent + amount = x + 1 => enforceRules(amount, Hostname(h)) = "over-daily"

\* A call was rejected one atomic unit over the cap, with a settled and a
\* failed or pending record of today in the ledger.
C3_Witness ==
    LET i == ActiveIndex(wallets, activeWalletId) IN
    /\ i # 0
    /\ wallets[i].rules.dailyCap # NullStr
    /\ SettledTodayAtomic(wallets[i].transactions) > 0
    /\ \E p \in CallIds :
        /\ calls[p].enf = "over-daily"
        /\ SettledTodayAtomic(wallets[i].transactions) + calls[p].accepted.amount
              = LimitTimesMillion(wallets[i].rules.dailyCap) + 1


\* How often status occurs in the statuses written to a transaction.
RECURSIVE Count(_, _)
Count(seq, x) == IF seq = <<>> THEN 0
                 ELSE (IF Head(seq) = x THEN 1 ELSE 0) + Count(Tail(seq), x)

InTable(sid) == SessionIndex(paymentSessions, sid) # 0

\* C4: among the payComplete calls on one sessionId at most one finds the
\* session, at most one retry request is sent and at most one settlement
\* is written for it; of two calls on the same sessionId, one fails with
\* session-not-found.
C4_SessionOneShot ==
    /\ \A sid \in 1..Len(hist.session) :
            /\ hist.session[sid].found <= 1
            /\ hist.tx[hist.session[sid].tx].retries <= 1
            /\ Count(hist.tx[hist.session[sid].tx].changes, "settled") <= 1
    /\ \A p, q \in CallIds :
            (/\ p # q
             /\ calls[p].op = "complete" /\ calls[q].op = "complete"
             /\ calls[p].sid = calls[q].sid)
            => (calls[p].err = "session-not-found" \/ calls[q].err = "session-not-found")

\* One payComplete call has sent the retry request and settled the record;
\* another one on the same sessionId has failed with session-not-found.
C4_Witness ==
    \E p, q \in CallIds :
        /\ p # q
        /\ calls[p].op = "complete" /\ calls[q].op = "complete"
        /\ calls[p].sid = calls[q].sid
        /\ calls[p].pc = "done" /\ calls[p].retries = 1
        /\ TxOf(wallets, calls[p].txId).status = "settled"
        /\ calls[q].err = "session-not-found"

\* C5: the ledger record of a payment whose retry response was received
\* has had its status written exactly once: settled for a 2xx response,
\* failed for another one.
C5_StatusWrittenOncePerResponse ==
    \A id \in 1..Len(hist.tx) :
        /\ hist.tx[id].answered = "2xx" =>
                hist.tx[id].changes = <<"settled">> /\ TxOf(wallets, id).status = "settled"
        /\ hist.tx[id].answered = "other" =>
                hist.tx[id].changes = <<"failed">> /\ TxOf(wallets, id).status = "failed"

\* C6: once pay has called the adapter's signTypedData, a ledger record of
\* that payment is in the persisted document.
C6_PendingPersistedBeforeSigning ==
    \A p \in CallIds :
        (calls[p].op = "pay" /\ calls[p].signs > 0) =>
            /\ calls[p].txId # NoId
            /\ HolderOf(disk.wallets, calls[p].txId) # 0

\* C7: when the retry request of a call has ended with a transport error,
\* the ledger record of the payment has status failed.
C7_RetryErrorMarksFailed ==
    \A p \in CallIds :
        (calls[p].retries > 0 /\ calls[p].err = "upstream-error") =>
            TxOf(wallets, calls[p].txId).status = "failed"

\* C8: a payComplete call that found its session expired has failed, has
\* sent no retry request and has removed the session, and the ledger
\* record of the session has status failed and reason "Payment session
\* expired".
C8_CompleteAfterExpiry ==
    \A p \in CallIds :
        (calls[p].op = "complete" /\ calls[p].txId # NoId /\ calls[p].retries = 0) =>
            /\ calls[p].pc = "failed"
            /\ ~InTable(calls[p].sid)
            /\ TxOf(wallets, calls[p].txId).status = "failed"
            /\ TxOf(wallets, calls[p].txId).reason = "Payment session expired"

\* C9: a run of the sweeper ends with no expired session in the table, and
\* with the ledger record of every session it dropped failed with reason
\* "Payment session expired".
C9_SweepLeavesNoExpiredSession ==
    [][cleanupSessions =>
        /\ \A i \in 1..Len(paymentSessions') : ~(now' > paymentSessions'[i].expiresAt)
        /\ \A i \in 1..Len(paymentSessions) :
                SessionIndex(paymentSessions', paymentSessions[i].id) = 0 =>
                    /\ TxOf(wallets', paymentSessions[i].txRecordId).status = "failed"
                    /\ TxOf(wallets', paymentSessions[i].txRecordId).reason
                          = "Payment session expired"]_vars

\* C10: no session has both a retry request sent by payComplete and its
\* ledger record marked expired by the sweeper; a session the sweeper
\* marked or payComplete took is no longer in the table.
C10_SweeperAndCompleteExclusive ==
    \A sid \in 1..Len(hist.session) :
        /\ ~(hist.session[sid].swept /\ hist.tx[hist.session[sid].tx].retries > 0)
        /\ hist.session[sid].swept => ~InTable(sid)
        /\ hist.tx[hist.session[sid].tx].retries > 0 => ~InTable(sid)

\* The sweeper dropped a session, and a payComplete call on it afterwards
\* observed session-not-found.
C10_Witness ==
    \E sid \in 1..Len(hist.session), p \in CallIds :
        /\ hist.session[sid].swept
        /\ calls[p].op = "complete" /\ calls[p].sid = sid
        /\ calls[p].err = "session-not-found"
        /\ \E q \in CallIds : calls[q].op = "complete" /\ calls[q].pc = "awaitRetry"

\* The wallet whose adapter the call signs with is frozen.
SigningWalletFrozen(c) ==
    /\ WalletIndex(wallets, c.adapter.wallet) # 0
    /\ wallets[WalletIndex(wallets, c.adapter.wallet)].frozen

\* C11: a pay whose wallet is frozen before its signing call starts makes
\* no signing call, appends no ledger record and sends no retry request.
C11_FreezeBeforeSigning ==
    [][\A p \in CallIds :
          (/\ calls[p].op = "pay"
           /\ calls[p].pc = "awaitUpstream"
           /\ SigningWalletFrozen(calls[p]))
          => /\ calls'[p].signs <= calls[p].signs
             /\ calls'[p].appends <= calls[p].appends
             /\ calls'[p].retries <= calls[p].retries]_vars

\* C12: a payComplete call made while the active wallet is frozen fails
\* with the frozen error and sends no retry request, so that no ledger
\* record becomes settled by it.
C12_CompleteRefusedWhenFrozen ==
    \A p \in CallIds :
        (calls[p].op = "complete" /\ calls[p].sawFrozen) =>
            /\ calls[p].pc = "failed"
            /\ calls[p].err = "frozen"
            /\ calls[p].retries = 0

\* ------------------------------------------------------------- network guard

\* The accepts lists of 402 documents whose options differ in network,
\* scheme and asset.
NetAcceptsLists ==
    { <<Option(CAIP2_BASE, 1)>>,
      <<Option(CAIP2_SEPOLIA, 1)>>,
      <<[Option(CAIP2_BASE, 1) EXCEPT !.scheme = "upto"]>>,
      <<[Option(CAIP2_SEPOLIA, 1) EXCEPT !.asset = [chain |-> "other", mixedCase |-> TRUE]]>>,
      <<[Option(CAIP2_SEPOLIA, 1) EXCEPT !.scheme = "upto"], Option(CAIP2_BASE, 1)>>,
      <<Option(CAIP2_BASE, 1), Option(CAIP2_SEPOLIA, 1)>> }

NetResponses ==
    { Plain(200, "h", "b") }
    \cup { PaymentRequired(a) : a \in NetAcceptsLists }

\* The network guard: one wallet, the selected network changed between
\* the payments of one caller.
NextNet ==
    \/ \E net \in NetworkIds : SetNetwork(net)
    \/ \E h \in FlowHosts : x402FetchStart("c1", h)
    \/ \E resp \in NetResponses : x402FetchNegotiated("c1", resp)
    \/ x402FetchSigned("c1")
    \/ \E h \in FlowHosts : x402PrepareStart("c1", h)
    \/ \E resp \in NetResponses : x402PrepareNegotiated("c1", resp)
    \/ \E sid \in 1..MaxPayments : x402CompleteStart("c1", sid)
    \/ \E resp \in PlainRetryResponses : RetryReturned("c1", resp)

SpecNet == InitOneWallet /\ [][NextNet]_vars

\* The step is the one in which negotiate of call p handles resp.
Negotiated(p, resp) == x402FetchNegotiated(p, resp) \/ x402PrepareNegotiated(p, resp)

\* The call fails in this step with error e and nothing else happens: no
\* signing call, no session, no retry request, no ledger record.
FailsUntouched(p, e) ==
    /\ calls'[p].pc = "failed" /\ calls'[p].err = e
    /\ NoTrace(calls'[p])
    /\ wallets' = wallets /\ disk' = disk /\ paymentSessions' = paymentSessions

\* An option the broker can fulfil: scheme exact, a recognized chain and
\* the USDC contract of that chain.
Fulfillable(o) ==
    /\ o.scheme = "exact"
    /\ o.network \in {"eip155:8453", "eip155:84532"}
    /\ o.asset.chain = o.network

\* The first fulfillable option of the list is on another network than
\* the selected one.
FirstFulfillableElsewhere(accepts) ==
    \E i \in 1..Len(accepts) :
        /\ Fulfillable(accepts[i])
        /\ \A j \in 1..(i - 1) : ~Fulfillable(accepts[j])
        /\ accepts[i].network # (IF network = "base-sepolia" THEN "eip155:84532" ELSE "eip155:8453")

\* Every option of the list is on another network than the selected one.
AllElsewhere(accepts) ==
    /\ accepts # <<>>
    /\ \A i \in 1..Len(accepts) :
           accepts[i].network # (IF network = "base-sepolia" THEN "eip155:84532" ELSE "eip155:8453")

\* C13 as stated: when every option of the 402 document is on another
\* network than the selected one, pay and payPrepare fail with
\* network-mismatch and create no signature, session or ledger record.
C13_AllElsewhereIsMismatch ==
    [][\A p \in CallIds, resp \in NetResponses :
          (Negotiated(p, resp) /\ resp.kind = "402" /\ AllElsewhere(resp.accepts))
          => FailsUntouched(p, "network-mismatch")]_vars

\* C13, amended: when the first option the broker can fulfil is on another
\* network than the selected one, pay and payPrepare fail with
\* network-mismatch; when the document has no option the broker can
\* fulfil, they fail with no-compatible-option; in both cases no
\* signature, session or ledger record is created.
C13_NetworkGuard ==
    [][\A p \in CallIds, resp \in NetResponses :
          (Negotiated(p, resp) /\ resp.kind = "402")
          => /\ FirstFulfillableElsewhere(resp.accepts)
                    => FailsUntouched(p, "network-mismatch")
             /\ (\A i \in 1..Len(resp.accepts) : ~Fulfillable(resp.accepts[i]))
                    => FailsUntouched(p, "no-compatible-option")]_vars

\* With base-sepolia selected, a call was refused with network-mismatch on
\* an option for eip155:8453.
C13_Witness ==
    \E p \in CallIds :
        /\ calls[p].op \in {"pay", "prepare"}
        /\ calls[p].err = "network-mismatch"
        /\ calls[p].accepted.network = CAIP2_BASE
        /\ network = "base-sepolia"
        /\ NoTrace(calls[p])

\* pat is a case-insensitive substring of s.
CaseInsensitiveSubstring(pat, s) ==
    \E i \in 0..(Len(s) - Len(pat)) :
        \A k \in 1..Len(pat) : ToLowerChar(s[i + k]) = ToLowerChar(pat[k])

\* The amount passes the per-transaction and the daily check of the entry.
PassesAmountChecks(entry, amount) ==
    /\ entry.rules.maxPerTransaction = NullStr
          \/ amount <= LimitTimesMillion(entry.rules.maxPerTransaction)
    /\ entry.rules.dailyCap = NullStr
          \/ SettledTodayAtomic(entry.transactions) + amount
                <= LimitTimesMillion(entry.rules.dailyCap)

\* C14: when a blocked pattern and an allowed pattern are both
\* case-insensitive substrings of the service and the amount passes the
\* per-transaction and daily checks, enforce fails with blocked.
C14_BlockBeatsAllow ==
    LET i == ActiveIndex(wallets, activeWalletId) IN
    i # 0 =>
        \A amount \in 0..4, service \in Hosts \cup { Hostname(h) : h \in Hosts } :
            (/\ \E b \in 1..Len(wallets[i].rules.blockedServices) :
                    CaseInsensitiveSubstring(wallets[i].rules.blockedServices[b], service)
             /\ \E a \in 1..Len(wallets[i].rules.allowedServices) :
                    CaseInsensitiveSubstring(wallets[i].rules.allowedServices[a], service)
             /\ PassesAmountChecks(wallets[i], amount))
            => enforceRules(amount, service) = "blocked"

\* A call was refused as blocked for a service that a pattern of the
\* allowlist and a pattern of the blocklist both match.
C14_Witness ==
    LET i == ActiveIndex(wallets, activeWalletId) IN
    /\ i # 0
    /\ \E p \in CallIds :
        /\ calls[p].enf = "blocked"
        /\ calls[p].pc = "failed"
        /\ \E b \in 1..Len(wallets[i].rules.blockedServices) :
                CaseInsensitiveSubstring(wallets[i].rules.blockedServices[b], calls[p].host)
        /\ \E a \in 1..Len(wallets[i].rules.allowedServices) :
                CaseInsensitiveSubstring(wallets[i].rules.allowedServices[a], calls[p].host)
        /\ PassesAmountChecks(wallets[i], calls[p].accepted.amount)

\* ------------------------------------------------------------- store.ts: startup and the state file

\* Wallets in the largest state file a run starts from.
StoredWallets == 3

NoLegacy == [wallet |-> FALSE, adapterConfig |-> NULL, frozen |-> FALSE, rules |-> FALSE,
             transactions |-> <<>>]

\* No state file.
NoFile == [kind |-> "none", wallets |-> <<>>, activeWalletId |-> NoId, network |-> NULL,
           legacy |-> NoLegacy]

\* A v1 (single-wallet) state file: wallet and adapterConfig may be
\* missing, rules may be missing.
LegacyFile(hasWallet, adapterConfig, frozen, hasRules) ==
    [kind |-> "v1", wallets |-> <<>>, activeWalletId |-> NoId, network |-> NULL,
     legacy |-> [wallet |-> hasWallet, adapterConfig |-> adapterConfig,
                 frozen |-> frozen, rules |-> hasRules, transactions |-> <<>>]]

\* The v1 file with a ledger.
WithLegacyLedger(file, txs) == [file EXCEPT !.legacy.transactions = txs]

\* A v2 state file, as persist() wrote it.
V2File(ws, act, net) ==
    [kind |-> "v2", wallets |-> ws, activeWalletId |-> act, network |-> net,
     legacy |-> NoLegacy]

\* The rules of a v1 file that has rules.
LegacyRules == [DEFAULT_RULES EXCEPT !.blockedServices = <<<<"b">>>>]

\* The state files a run starts from.
StateFiles ==
    { NoFile,
      LegacyFile(FALSE, NULL, FALSE, FALSE),
      LegacyFile(TRUE, NULL, FALSE, FALSE),
      LegacyFile(TRUE, "local-key", TRUE, FALSE),
      LegacyFile(TRUE, "local-key", FALSE, TRUE),
      V2File(<<>>, NoId, "base-sepolia"),
      V2File([i \in 1..StoredWallets |-> NewEntry(i, "local-key")], 2, "base") }

\* The wallet entry a v1 file with wallet and adapterConfig becomes.
MigratedEntry(legacy, id) ==
    [id |-> id, label |-> DefaultLabel(1),
     frozen |-> legacy.frozen,
     adapter |-> legacy.adapterConfig,
     rules |-> IF legacy.rules THEN LegacyRules ELSE DEFAULT_RULES,
     transactions |-> legacy.transactions,
     agentIdentity |-> NoIdentity]

\* migrateIfNeeded that takes a v2 file for a v1 file as well: its first
\* wallet gets a new id on every startup.
migrateAlways(raw, id) ==
    IF raw.kind = "v2"
    THEN IF raw.wallets = <<>> THEN Document(<<>>, NoId, "base")
         ELSE Document(<<[raw.wallets[1] EXCEPT !.id = id]>>, id, "base")
    ELSE LET ws == IF raw.legacy.wallet /\ raw.legacy.adapterConfig # NULL
                   THEN << MigratedEntry(raw.legacy, id) >>
                   ELSE <<>>
         IN  Document(ws, IF ws = <<>> THEN NoId ELSE ws[1].id, "base")

\* migrateIfNeeded(raw), id being the value of randomBytes(8): a v2 file
\* is taken as it is; a v1 file becomes a list of one wallet (when it has
\* wallet and adapterConfig) or of none, with the first wallet active and
\* network base.
migrateIfNeeded(raw, id) ==
    IF raw.kind = "v2" THEN Document(raw.wallets, raw.activeWalletId, raw.network)
    ELSE LET ws == IF raw.legacy.wallet /\ raw.legacy.adapterConfig # NULL
                   THEN << MigratedEntry(raw.legacy, id) >>
                   ELSE <<>>
         IN  Document(ws, IF ws = <<>> THEN NoId ELSE ws[1].id, "base")

\* initStore(): the document after startup on the file.
initStore(file, id) ==
    IF file.kind = "none" THEN Document(<<>>, NoId, "base") ELSE migrateIfNeeded(file, id)

\* The state after startup on one of the state files.
InitStore ==
    \E file \in StateFiles :
        /\ wallets = initStore(file, 1).wallets
        /\ activeWalletId = initStore(file, 1).activeWalletId
        /\ network = initStore(file, 1).network
        /\ disk = Persisted(wallets, activeWalletId, network)
        /\ paymentSessions = <<>>
        /\ now = 0
        /\ calls = [p \in CallIds |-> IdleCall]
        /\ nextId = [wallet |-> Len(wallets) + 1, tx |-> 1, session |-> 1]
        /\ started = 0
        /\ alive = TRUE
        /\ pendingAdapter = NoPendingAdapter
        /\ demoMode = FALSE
        /\ hist = [tx |-> <<>>, session |-> <<>>, removed |-> <<>>]

\* What writeFileSync can leave of the document when the process stops
\* inside it: the file is truncated first and then written from its
\* start, so it holds a prefix of the serialized document (wallets,
\* activeWalletId, network, in this order).  A key that was not written
\* reads as null.
TornFiles(doc) ==
    { [wallets |-> SubSeq(doc.wallets, 1, k), activeWalletId |-> NoId, network |-> NULL] :
          k \in 0..Len(doc.wallets) }
    \cup { [doc EXCEPT !.network = NULL] }

\* setNetwork(network) when the process stops during persist(): before
\* the file is opened, inside writeFileSync, or after it.
SetNetworkCrashed(net) ==
    /\ alive
    /\ network' = net
    /\ disk' \in {disk, Persisted(wallets, activeWalletId, net)}
                    \cup TornFiles(Persisted(wallets, activeWalletId, net))
    /\ alive' = FALSE
    /\ UNCHANGED <<wallets, activeWalletId, paymentSessions, now, calls, nextId, started, hist>>
    /\ UNCHANGED <<pendingAdapter, demoMode>>

\* [...list].reverse()
Reversed(list) == [i \in 1..Len(list) |-> list[Len(list) + 1 - i]]

\* list.slice(0, end): a negative end counts from the end of the list.
SliceTo(list, end) ==
    LET last == IF end < 0 THEN (IF Len(list) + end < 0 THEN 0 ELSE Len(list) + end)
                ELSE (IF end > Len(list) THEN Len(list) ELSE end)
    IN  SubSeq(list, 1, last)

\* getTransactions(limit) on the active wallet: newest first.
getTransactions(limit) ==
    SliceTo(Reversed(wallets[ActiveIndex(wallets, activeWalletId)].transactions), limit)

\* The wallet registry and the state file: startup, the wallet operations,
\* the network selection, a stop of the process during a write, and the
\* payments of one caller.
NextStore ==
    \/ CreateWallet("local-key")
    \/ \E id \in 1..StoredWallets : SwitchWallet(id)
    \/ \E id \in 1..StoredWallets : RemoveWallet(id)
    \/ \E f \in BOOLEAN : SetFrozen(f)
    \/ \E net \in NetworkIds : SetNetwork(net)
    \/ \E net \in NetworkIds : SetNetworkCrashed(net)
    \/ \E h \in FlowHosts : x402FetchStart("c1", h)
    \/ \E resp \in FlowResponses : x402FetchNegotiated("c1", resp)
    \/ x402FetchSigned("c1")
    \/ \E resp \in PlainRetryResponses : RetryReturned("c1", resp)

SpecStore == InitStore /\ [][NextStore]_vars

\* ------------------------------------------------------------- claims on the wallet registry

\* The activeWalletId of the document is null or the id of one of its wallets.
ActiveIsNullOrListed(doc) ==
    \/ doc.activeWalletId = NoId
    \/ \E i \in 1..Len(doc.wallets) : doc.wallets[i].id = doc.activeWalletId

\* C15: in every reachable state activeWalletId is null or the id of a
\* wallet of the list, in memory and in the state file.
C15_ActiveWalletExists ==
    /\ ActiveIsNullOrListed([wallets |-> wallets, activeWalletId |-> activeWalletId])
    /\ alive => ActiveIsNullOrListed(disk)

\* The active wallet was removed while other wallets remained, and the
\* active wallet was removed until none remained.
C15_Witness ==
    /\ Len(hist.removed) = StoredWallets
    /\ \A r \in 1..Len(hist.removed) : hist.removed[r].wasActive
    /\ wallets = <<>>
    /\ activeWalletId = NoId

\* The wallets of the list other than id, in list order.
Others(ws, id) == SelectSeq(ws, LAMBDA w : w.id # id)

\* C16: removeWallet(id) for an id of the list removes exactly that
\* wallet; when it was the active wallet the first remaining wallet becomes
\* active (null when none remains), otherwise activeWalletId is unchanged.
C16_RemoveWallet ==
    [][\A id \in 1..StoredWallets :
          RemoveWallet(id) =>
              /\ wallets' = Others(wallets, id)
              /\ Len(wallets') = Len(wallets) - 1
              /\ activeWalletId = id =>
                    activeWalletId' = (IF Others(wallets, id) = <<>> THEN NoId
                                       ELSE Others(wallets, id)[1].id)
              /\ activeWalletId # id => activeWalletId' = activeWalletId]_vars

\* The active wallet, the second of three, was removed, and the first of
\* the two remaining wallets is active.
C16_Witness ==
    /\ hist.removed = << [id |-> 2, wasActive |-> TRUE] >>
    /\ Len(wallets) = 2
    /\ wallets[1].id = 1 /\ wallets[2].id = 3
    /\ activeWalletId = 1

\* C17: every transaction with status settled has a txHash that is not null.
C17_SettledHasTxHash ==
    \A w \in 1..Len(wallets) :
        \A i \in 1..Len(wallets[w].transactions) :
            wallets[w].transactions[i].status = "settled" =>
                wallets[w].transactions[i].txHash # NULL

\* C18: a record of every transaction that was appended to a ledger is in
\* the persisted document.
C18_TransactionsNeverDeleted ==
    alive => \A id \in 1..Len(hist.tx) : HolderOf(disk.wallets, id) # 0

\* C20: a write of the state file leaves in it the complete previous
\* document or the complete new document, also when the process stops
\* during the write.
C20_PersistIsAtomic ==
    [][disk' \in {disk, Document(wallets', activeWalletId', network')}]_vars

\* The pay call has ended with a 2xx retry response.
PaidOk(c) == c.op = "pay" /\ c.pc = "done" /\ c.retries = 1 /\ c.status = 200

\* C19: the pay calls that ended with a 2xx retry response have appended
\* one record each, which is settled; every ledger lists its records in
\* the order they were appended, none is missing or listed twice; and the
\* newest-first listing of the active wallet is that list backwards, the
\* last payment first.
C19_LedgerAppendOrder ==
    /\ \A p \in CallIds :
            PaidOk(calls[p]) =>
                /\ calls[p].appends = 1
                /\ HolderOf(wallets, calls[p].txId) # 0
                /\ TxOf(wallets, calls[p].txId).status = "settled"
    /\ \A w \in 1..Len(wallets) :
            \A i, j \in 1..Len(wallets[w].transactions) :
                i < j => wallets[w].transactions[i].id < wallets[w].transactions[j].id
    /\ \A id \in 1..Len(hist.tx) :
            Cardinality({ <<w, i>> \in (1..Len(wallets)) \X (1..MaxPayments) :
                            /\ i <= Len(wallets[w].transactions)
                            /\ wallets[w].transactions[i].id = id }) = 1
    /\ LET a == ActiveIndex(wallets, activeWalletId) IN
       (a # 0 /\ wallets[a].transactions # <<>>) =>
            LET txs == wallets[a].transactions
                listing == getTransactions(50)
            IN  /\ Len(listing) = Len(txs)
                /\ \A i \in 1..Len(txs) : listing[i] = txs[Len(txs) + 1 - i]
                /\ listing[1].id = txs[Len(txs)].id

\* Two pay calls on the active wallet have ended with a 2xx retry
\* response; its list holds their two records in append order, both
\* settled, and the listing starts with the second.
C19_Witness ==
    LET a == ActiveIndex(wallets, activeWalletId) IN
    /\ a # 0
    /\ \A p \in CallIds : PaidOk(calls[p])
    /\ Len(wallets[a].transactions) = 2
    /\ \A i \in 1..2 : wallets[a].transactions[i].id = i
                       /\ wallets[a].transactions[i].status = "settled"
    /\ getTransactions(50)[1].id = 2

\* ------------------------------------------------------------- durability

\* renameWallet(label) with an active wallet.
RenameWallet(label) ==
    /\ alive
    /\ ActiveIndex(wallets, activeWalletId) # 0
    /\ wallets' = [wallets EXCEPT ![ActiveIndex(wallets, activeWalletId)].label = label]
    /\ disk' = Persisted(wallets', activeWalletId, network)
    /\ UNCHANGED <<activeWalletId, network, paymentSessions, now, calls, nextId, started, alive, hist>>
    /\ UNCHANGED <<pendingAdapter, demoMode>>

\* The identities a caller sets: a name, with or without an agentId.
Identities == { [name |-> "n1", agentId |-> "7"], [name |-> "n2", agentId |-> NULL] }

\* { ...entry.agentIdentity, ...identity }: a key of the new identity
\* replaces the old one, a key it does not have is kept.
MergedIdentity(old, identity) ==
    [name |-> identity.name,
     agentId |-> IF identity.agentId # NULL THEN identity.agentId ELSE old.agentId]

\* setAgentIdentity(identity) with an active wallet.
SetAgentIdentity(identity) ==
    /\ alive
    /\ ActiveIndex(wallets, activeWalletId) # 0
    /\ wallets' = [wallets EXCEPT ![ActiveIndex(wallets, activeWalletId)].agentIdentity =
                        MergedIdentity(@, identity)]
    /\ disk' = Persisted(wallets', activeWalletId, network)
    /\ UNCHANGED <<activeWalletId, network, paymentSessions, now, calls, nextId, started, alive, hist>>
    /\ UNCHANGED <<pendingAdapter, demoMode>>

\* The rule patches of the specification of the mutators.
DurablePatches == { {<<"dailyCap", <<"0", ".", "0", "0", "0", "0", "0", "2">>>>} }

\* The upstream server of the specification of the mutators: it asks for
\* one payment and accepts it.
DurableResponses == { r \in FlowResponses : r.kind = "402" }

DurableRetryResponses == { r \in PlainRetryResponses : r.ok }

\* Every mutating operation of the tool surface, and the ledger writes of
\* the payments of one caller.
NextDurable ==
    \/ CreateWallet("local-key")
    \/ \E id \in 1..MaxWallets : SwitchWallet(id)
    \/ \E id \in 1..MaxWallets : RemoveWallet(id)
    \/ RenameWallet(CustomLabel("Treasury"))
    \/ \E f \in BOOLEAN : SetFrozen(f)
    \/ \E patch \in DurablePatches : SetRules(patch)
    \/ \E net \in NetworkIds : SetNetwork(net)
    \/ \E identity \in Identities : SetAgentIdentity(identity)
    \/ \E h \in FlowHosts : x402FetchStart("c1", h)
    \/ \E resp \in DurableResponses : x402FetchNegotiated("c1", resp)
    \/ x402FetchSigned("c1")
    \/ \E resp \in DurableRetryResponses : RetryReturned("c1", resp)

SpecDurable == Init /\ [][NextDurable]_vars

\* C21: after every mutating operation the content of the state file is
\* the in-memory document.
C21_FileEqualsMemory ==
    disk = [wallets |-> wallets, activeWalletId |-> activeWalletId, network |-> network]

\* Wallets were created, removed, renamed, frozen, given rules and an
\* identity, the network was changed and a ledger record was added and
\* updated.
C21_Witness ==
    /\ hist.removed # <<>>
    /\ network = "base-sepolia"
    /\ \E w \in 1..Len(wallets) :
        /\ wallets[w].label = CustomLabel("Treasury")
        /\ wallets[w].frozen
        /\ wallets[w].rules.dailyCap # NullStr
        /\ wallets[w].agentIdentity = [name |-> "n2", agentId |-> "7"]
        /\ \E i \in 1..Len(wallets[w].transactions) :
                wallets[w].transactions[i].status = "settled"

\* ------------------------------------------------------------- migration of a v1 state file

\* Startups on one state file in one run.
MaxBoots == 3

\* The values randomBytes(8) returns at a startup.
FreshIds == 1..2

\* A settled record of a v1 ledger.
LegacyRecord(id) ==
    [id |-> id, timestamp |-> 0, service |-> <<"c">>,
     amount |-> FormatUnits(1, 6), network |-> CAIP2_BASE,
     txHash |-> "0xab", status |-> "settled", reason |-> "x402 payment"]

\* The ledgers of the v1 files.
LegacyLedgers == { <<>>, <<LegacyRecord(1)>>, <<LegacyRecord(1), LegacyRecord(2)>> }

\* The v1 state files a run starts from.
V1Files ==
    { WithLegacyLedger(LegacyFile(hasWallet, adapterConfig, frozen, hasRules), txs) :
          hasWallet \in BOOLEAN, adapterConfig \in AdapterTypes \cup {NULL},
          frozen \in BOOLEAN, hasRules \in BOOLEAN, txs \in LegacyLedgers }

\* The state after the first startup on a v1 file; the file and the
\* value randomBytes returned are remembered.
InitMigrate ==
    \E file \in V1Files, id \in FreshIds :
        /\ wallets = initStore(file, id).wallets
        /\ activeWalletId = initStore(file, id).activeWalletId
        /\ network = initStore(file, id).network
        /\ disk = Persisted(wallets, activeWalletId, network)
        /\ paymentSessions = <<>>
        /\ now = 0
        /\ calls = [p \in CallIds |-> IdleCall]
        /\ nextId = [wallet |-> Len(wallets) + 1, tx |-> 1, session |-> 1]
        /\ started = 0
        /\ alive = TRUE
        /\ pendingAdapter = NoPendingAdapter
        /\ demoMode = FALSE
        /\ hist = [tx |-> <<>>, session |-> <<>>, removed |-> <<>>,
                   file |-> file, id |-> id, boots |-> 1]

\* The process is started again: initStore() reads the state file the
\* last run left, and writes the document back.  Sessions and calls in
\* flight are gone with the old process.
Restart(id) ==
    LET doc == initStore(V2File(disk.wallets, disk.activeWalletId, disk.network), id) IN
    /\ hist.boots < MaxBoots
    /\ hist' = [hist EXCEPT !.boots = @ + 1]
    /\ wallets' = doc.wallets
    /\ activeWalletId' = doc.activeWalletId
    /\ network' = doc.network
    /\ disk' = Persisted(wallets', activeWalletId', network')
    /\ paymentSessions' = <<>>
    /\ calls' = [p \in CallIds |-> IdleCall]
    /\ alive' = TRUE
    /\ UNCHANGED <<now, nextId, started>>
    /\ UNCHANGED <<pendingAdapter, demoMode>>

NextMigrate == \E id \in FreshIds : Restart(id)

SpecMigrate == InitMigrate /\ [][NextMigrate]_vars

\* The v1 file has wallet and adapterConfig.
IsV1Document(file) == file.legacy.wallet /\ file.legacy.adapterConfig # NULL

\* The document is the migration of the v1 file: one wallet with the
\* legacy wallet info, adapterConfig, rules and transactions, label
\* "Wallet 1", the id randomBytes returned at the first startup, that id
\* active, network base.
MigratedFrom(file) ==
    /\ Len(wallets) = 1
    /\ wallets[1].id = hist.id
    /\ wallets[1].label = [text |-> "Wallet", num |-> 1]
    /\ wallets[1].frozen = file.legacy.frozen
    /\ wallets[1].adapter = file.legacy.adapterConfig
    /\ wallets[1].rules = (IF file.legacy.rules THEN LegacyRules ELSE DEFAULT_RULES)
    /\ wallets[1].transactions = file.legacy.transactions
    /\ activeWalletId = wallets[1].id
    /\ network = "base"
    /\ disk = [wallets |-> wallets, activeWalletId |-> activeWalletId, network |-> network]

\* C22: startup on a v1 document gives a v2 document of exactly one
\* wallet with the legacy wallet info, adapterConfig, rules and
\* transactions, a fresh id, label "Wallet 1", that id active and network
\* base; a further startup on the file leaves document and file
\* unchanged, the wallet id included.
C22_MigrationOnce ==
    /\ IsV1Document(hist.file) => MigratedFrom(hist.file)
    /\ hist.boots > 1 => disk.wallets = initStore(hist.file, hist.id).wallets

\* A v1 file with rules and a ledger of two records was migrated, and
\* the process was started again on the migrated file.
C22_Witness ==
    /\ IsV1Document(hist.file)
    /\ hist.file.legacy.rules
    /\ Len(hist.file.legacy.transactions) = 2
    /\ hist.boots = MaxBoots
    /\ Len(wallets) = 1
    /\ wallets[1].id = 2

\* ------------------------------------------------------------- demo mode and the two bindings

\* The state after construction with DEMO_MODE set or not set in the
\* environment of the process.
InitDemo ==
    \E demo \in BOOLEAN :
        /\ wallets = <<>>
        /\ activeWalletId = NoId
        /\ network = "base"
        /\ disk = Persisted(<<>>, NoId, "base")
        /\ paymentSessions = <<>>
        /\ now = 0
        /\ calls = [p \in CallIds |-> IdleCall]
        /\ nextId = [wallet |-> 1, tx |-> 1, session |-> 1]
        /\ started = 0
        /\ alive = TRUE
        /\ pendingAdapter = NoPendingAdapter
        /\ demoMode = demo
        /\ hist = [tx |-> <<>>, session |-> <<>>, removed |-> <<>>]

\* pay and payPrepare calls the callers of the two bindings make in one run.
DemoPayments == 1

\* DEMO_MODE
DEMO_MODE == demoMode

\* The demo guard of the HTTP server lets a request pass: every route of
\* a state-changing operation is a POST, PUT or DELETE route.
DemoGuardPasses == ~DEMO_MODE

\* The identity and the rule patch of the callers of both bindings.
DemoIdentities == { i \in Identities : i.agentId # NULL }

\* A state-changing request to the HTTP server, up to the first await of
\* its handler.
ApiWrite ==
    /\ DemoGuardPasses
    /\ \/ CreateWallet("local-key")
       \/ \E id \in 1..MaxWallets : SwitchWallet(id)
       \/ \E id \in 1..MaxWallets : RemoveWallet(id)
       \/ RenameWallet(CustomLabel("Treasury"))
       \/ \E net \in NetworkIds : SetNetwork(net)
       \/ \E patch \in DurablePatches : SetRules(patch)
       \/ \E identity \in DemoIdentities : SetAgentIdentity(identity)
       \/ \E f \in BOOLEAN : SetFrozen(f)
       \/ started < DemoPayments /\ \E h \in FlowHosts : x402FetchStart("c1", h)
       \/ started < DemoPayments /\ \E h \in FlowHosts : x402PrepareStart("c1", h)
       \/ \E sid \in 1..MaxPayments : x402CompleteStart("c1", sid)

\* A call of a state-changing tool of the stdio server, up to the first
\* await of its handler: create_wallet, switch_wallet, set_network,
\* set_spending_rules, set_agent_identity, pay, freeze_wallet,
\* unfreeze_wallet.  No tool handler reads DEMO_MODE.
ToolWrite ==
    \/ CreateWallet("local-key")
    \/ \E id \in 1..MaxWallets : SwitchWallet(id)
    \/ \E net \in NetworkIds : SetNetwork(net)
    \/ \E patch \in DurablePatches : SetRules(patch)
    \/ \E identity \in DemoIdentities : SetAgentIdentity(identity)
    \/ \E f \in BOOLEAN : SetFrozen(f)
    \/ started < DemoPayments /\ \E h \in FlowHosts : x402FetchStart("c1", h)

\* The rest of a payment that was started through one of the bindings.
PaymentContinues ==
    \/ \E resp \in DurableResponses : x402FetchNegotiated("c1", resp)
    \/ x402FetchSigned("c1")
    \/ \E resp \in DurableResponses : x402PrepareNegotiated("c1", resp)
    \/ \E resp \in DurableRetryResponses : RetryReturned("c1", resp)

NextDemo == ApiWrite \/ ToolWrite \/ PaymentContinues

SpecDemo == InitDemo /\ [][NextDemo]_vars

\* C23: with the demo-mode flag set no operation of either binding
\* changes the persisted document or the session table.
C23_DemoModeBlocksWrites ==
    [][DEMO_MODE => UNCHANGED <<disk, paymentSessions>>]_vars

\* ------------------------------------------------------------- responses that are not 402

\* The responses that are not 402: status, headers and body vary.
PlainResponses ==
    { Plain(status, headers, body) :
          status \in {200, 404}, headers \in {"h1", "h2"}, body \in {"", "b"} }

\* The upstream server answers the initial request with a response that
\* is not 402, or asks for a payment.
PassthroughResponses == PlainResponses \cup { PaymentRequired(<<Option(CAIP2_BASE, 1)>>) }

\* Two callers of pay and payPrepare against a server that does not
\* always ask for a payment, and the wallet operations between their steps.
NextPassthrough ==
    \/ CreateWallet("local-key")
    \/ \E id \in 1..MaxWallets : SwitchWallet(id)
    \/ \E p \in CallIds, h \in FlowHosts : x402FetchStart(p, h)
    \/ \E p \in CallIds, h \in FlowHosts : x402PrepareStart(p, h)
    \/ \E p \in CallIds, resp \in PassthroughResponses : x402FetchNegotiated(p, resp)
    \/ \E p \in CallIds, resp \in PassthroughResponses : x402PrepareNegotiated(p, resp)
    \/ \E p \in CallIds : x402FetchSigned(p)
    \/ \E p \in CallIds, resp \in DurableRetryResponses : RetryReturned(p, resp)

SpecPassthrough == Init /\ [][NextPassthrough]_vars

\* The call issued one upstream request and asked for no signature.
OneRequestOnly(c) == c.requests = 1 /\ c.retries = 0 /\ c.signs = 0

\* C24: on a response to the initial request that is not 402, pay
\* returns status, headers and body of that response and payPrepare
\* fails with not-402; either issued exactly one upstream request, asked
\* for no signature, created no session and changed no ledger.
C24_Passthrough ==
    [][\A p \in CallIds, resp \in PlainResponses :
          /\ x402FetchNegotiated(p, resp) =>
                /\ calls'[p].pc = "done"
                /\ calls'[p].status = resp.status
                /\ calls'[p].headers = resp.headers
                /\ calls'[p].body = resp.body
                /\ OneRequestOnly(calls'[p])
                /\ UNCHANGED <<wallets, disk, paymentSessions>>
          /\ x402PrepareNegotiated(p, resp) =>
                /\ calls'[p].pc = "failed"
                /\ calls'[p].err = "not-402"
                /\ OneRequestOnly(calls'[p])
                /\ UNCHANGED <<wallets, disk, paymentSessions>>]_vars

\* A pay call returned a 404 response and a payPrepare call failed on a
\* response that is not 402, with two wallets in the list.
C24_Witness ==
    /\ calls["c1"].op = "pay" /\ calls["c1"].pc = "done" /\ calls["c1"].status = 404
    /\ calls["c1"].body = "b"
    /\ calls["c2"].op = "prepare" /\ calls["c2"].err = "not-402"
    /\ Len(wallets) = MaxWallets

\* ------------------------------------------------------------- the sweeper and prepared payments

\* One caller of payPrepare and payComplete, the wallet operations, the
\* clock and the sweeper.
NextLive ==
    \/ CreateWallet("local-key")
    \/ \E id \in 1..MaxWallets : SwitchWallet(id)
    \/ Tick
    \/ \E h \in FlowHosts : x402PrepareStart("c1", h)
    \/ \E resp \in FlowResponses : x402PrepareNegotiated("c1", resp)
    \/ \E sid \in 1..MaxPayments : x402CompleteStart("c1", sid)
    \/ \E resp \in RetryResponses : RetryReturned("c1", resp)
    \/ cleanupSessions

\* The timer of setInterval fires cleanupSessions again and again, time
\* passes, and every request to the upstream server ends with a response
\* or an error.
SpecLive ==
    /\ Init
    /\ [][NextLive]_vars
    /\ WF_vars(cleanupSessions)
    /\ WF_vars(Tick)
    /\ WF_vars(\E resp \in FlowResponses : x402PrepareNegotiated("c1", resp))
    /\ WF_vars(\E resp \in RetryResponses : RetryReturned("c1", resp))

\* payPrepare stored a session for transaction id that expires before
\* the clock of the run stops.
Prepared(id) ==
    \E i \in 1..Len(paymentSessions) :
        /\ paymentSessions[i].txRecordId = id
        /\ paymentSessions[i].expiresAt < MaxTime

\* Transaction id is in a ledger with status settled or failed.
Resolved(id) ==
    /\ HolderOf(wallets, id) # 0
    /\ TxOf(wallets, id).status \in {"settled", "failed"}

\* C25: every ledger record payPrepare created pending is settled or
\* failed at some later time, as long as the process runs.
C25_PreparedEventuallyResolved ==
    \A id \in 1..MaxPayments : Prepared(id) ~> (Resolved(id) \/ ~alive)

\* ------------------------------------------------------------- the human-readable amount

\* The atomic amounts the upstream server asks for.
AtomicAmounts == {0, 10000, 100000, 1000000, 1234567}

AmountResponses == { PaymentRequired(<<Option(CAIP2_BASE, a)>>) : a \in AtomicAmounts }

\* One wallet without limits and the payments of one caller to a server
\* that asks for these amounts.
NextAmounts ==
    \/ \E h \in FlowHosts : x402FetchStart("c1", h)
    \/ \E resp \in AmountResponses : x402FetchNegotiated("c1", resp)
    \/ x402FetchSigned("c1")
    \/ \E resp \in PlainRetryResponses : RetryReturned("c1", resp)

SpecAmounts == InitOneWallet /\ [][NextAmounts]_vars

\* The amounts the ledger is to show for the atomic amounts.
HumanAmounts ==
    [a \in AtomicAmounts |->
        CASE a = 0       -> <<"0", ".", "0">>
          [] a = 10000   -> <<"0", ".", "0", "1">>
          [] a = 100000  -> <<"0", ".", "1">>
          [] a = 1000000 -> <<"1", ".", "0">>
          [] a = 1234567 -> <<"1", ".", "2", "3", "4", "5", "6", "7">>]

\* C26: the amount of a ledger record for atomic amount a is a / 10^6 in
\* plain decimal with at least one fractional digit: "0.1" for 100000,
\* "0.01" for 10000, "1.234567" for 1234567, "0.0" for 0 and "1.0" for
\* 1000000.
C26_HumanAmount ==
    \A w \in 1..Len(wallets) : \A i \in 1..Len(wallets[w].transactions) :
        wallets[w].transactions[i].amount =
            HumanAmounts[hist.tx[wallets[w].transactions[i].id].atomic]

\* ------------------------------------------------------------- listing the ledger

\* Math.min(limit, 200) of the route, .max(200) of the tool.
LIST_CAP == 200

\* Records in the ledgers of the state files a run starts from.
LedgerSizes == {0, 1, 2, 3, LIST_CAP, LIST_CAP + 1, LIST_CAP + 2, LIST_CAP + 50}

\* The limits a caller passes.
ListLimits == {0 - LIST_CAP - 51, 0 - LIST_CAP - 1, -3, -2, -1, 0, 1, 2, 3, 50,
               LIST_CAP - 1, LIST_CAP, LIST_CAP + 1, LIST_CAP + 50}

\* The state after startup on a state file of one wallet with a ledger
\* of n records; the last listing is remembered.
InitList ==
    \E n \in LedgerSizes :
        /\ wallets = <<[NewEntry(1, "local-key") EXCEPT
                            !.transactions = [i \in 1..n |-> LegacyRecord(i)]]>>
        /\ activeWalletId = 1
        /\ network = "base"
        /\ disk = Persisted(wallets, 1, "base")
        /\ paymentSessions = <<>>
        /\ now = 0
        /\ calls = [p \in CallIds |-> IdleCall]
        /\ nextId = [wallet |-> 2, tx |-> n + 1, session |-> 1]
        /\ started = 0
        /\ alive = TRUE
        /\ pendingAdapter = NoPendingAdapter
        /\ demoMode = FALSE
        /\ hist = [tx |-> <<>>, session |-> <<>>, removed |-> <<>>,
                   binding |-> NULL, limit |-> 0, refused |-> FALSE, listed |-> <<>>]

\* GET /api/transactions?limit=<limit>
ApiListTransactions(limit) ==
    /\ alive
    /\ hist' = [hist EXCEPT !.binding = "http", !.limit = limit, !.refused = FALSE,
                            !.listed = getTransactions(IF limit < LIST_CAP THEN limit
                                                       ELSE LIST_CAP)]
    /\ UNCHANGED <<wallets, activeWalletId, network, disk, paymentSessions, now, calls,
                   nextId, started, alive>>
    /\ UNCHANGED <<pendingAdapter, demoMode>>

\* The tool get_transactions: its schema refuses a limit below 1 or above
\* 200, the handler passes the limit on.
ToolGetTransactions(limit) ==
    /\ alive
    /\ hist' = IF limit < 1 \/ limit > LIST_CAP
               THEN [hist EXCEPT !.binding = "stdio", !.limit = limit, !.refused = TRUE,
                                 !.listed = <<>>]
               ELSE [hist EXCEPT !.binding = "stdio", !.limit = limit, !.refused = FALSE,
                                 !.listed = getTransactions(limit)]
    /\ UNCHANGED <<wallets, activeWalletId, network, disk, paymentSessions, now, calls,
                   nextId, started, alive>>
    /\ UNCHANGED <<pendingAdapter, demoMode>>

NextList ==
    \/ \E limit \in ListLimits : ApiListTransactions(limit)
    \/ \E limit \in ListLimits : ToolGetTransactions(limit)

SpecList == InitList /\ [][NextList]_vars

\* C27: whatever the limit, a listing has at most 200 records, and they
\* are the most recent records of the active wallet, newest first.
C27_ListCapped ==
    (hist.binding # NULL /\ ~hist.refused) =>
        /\ Len(hist.listed) <= LIST_CAP
        /\ \A i \in 1..Len(hist.listed) :
              hist.listed[i] = wallets[1].transactions[Len(wallets[1].transactions) + 1 - i]

\* ------------------------------------------------------------- adapters: createWallet

\* The adapter variants.
AdapterVariants == {"local-key", "browser", "privy", "coinbase-cdp", "crossmint"}

\* What generatePrivateKey returns, or the id of the wallet a provider
\* creates.
Secrets == {"k1", "k2"}

\* The address of a private key, or of the wallet a provider created.
AddressOf(secret) == IF secret = "k1" THEN "0xA1" ELSE "0xA2"

\* An adapter instance: its variant, its private key or wallet id, its
\* address, and the address its last createWallet call returned.
Adapter(type, secret, address) ==
    [wallet |-> NoId, type |-> type, secret |-> secret, address |-> address,
     returned |-> NULL]

\* The instances the constructors build: without a config (the browser
\* adapter with or without the address of MetaMask), or hydrated from a
\* stored config.
AdapterInstances ==
    { Adapter(type, NULL, NULL) : type \in AdapterVariants }
    \cup { Adapter("browser", NULL, AddressOf(s)) : s \in Secrets }
    \cup { Adapter(type, s, AddressOf(s)) : type \in AdapterVariants \ {"browser"}, s \in Secrets }

\* isInitialized()
isInitialized(adapter) ==
    CASE adapter.type = "local-key" -> adapter.secret # NULL
      [] adapter.type = "browser"   -> adapter.address # NULL
      [] OTHER                      -> adapter.secret # NULL /\ adapter.address # NULL

\* toJSON(): the serialized configuration of the instance.
toJSON(adapter) == [type |-> adapter.type, secret |-> adapter.secret, address |-> adapter.address]

\* createWallet() of the variant: the local-key adapter generates a
\* private key, a managed adapter asks its provider for a wallet, the
\* browser adapter returns the address it was given and throws without
\* one.  generated is the key generated or the wallet created.
createWallet(adapter, generated) ==
    IF adapter.type = "browser"
    THEN [adapter EXCEPT !.returned = adapter.address]
    ELSE [adapter EXCEPT !.secret = generated, !.address = AddressOf(generated),
                         !.returned = AddressOf(generated)]

\* The state after construction of one adapter instance in each caller.
InitAdapters ==
    /\ wallets = <<>>
    /\ activeWalletId = NoId
    /\ network = "base"
    /\ disk = Persisted(<<>>, NoId, "base")
    /\ paymentSessions = <<>>
    /\ now = 0
    /\ calls \in [CallIds -> { [IdleCall EXCEPT !.adapter = a] : a \in AdapterInstances }]
    /\ nextId = [wallet |-> 1, tx |-> 1, session |-> 1]
    /\ started = 0
    /\ alive = TRUE
    /\ pendingAdapter = NoPendingAdapter
    /\ demoMode = FALSE
    /\ hist = [tx |-> <<>>, session |-> <<>>, removed |-> <<>>]

\* A caller calls createWallet() on its adapter instance.
Provision(p, generated) ==
    /\ alive
    /\ calls' = [calls EXCEPT ![p].adapter = createWallet(@, generated)]
    /\ UNCHANGED <<wallets, activeWalletId, network, disk, paymentSessions, now,
                   nextId, started, alive, hist>>
    /\ UNCHANGED <<pendingAdapter, demoMode>>

NextAdapters == \E p \in CallIds, generated \in Secrets : Provision(p, generated)

SpecAdapters == InitAdapters /\ [][NextAdapters]_vars

\* C28: createWallet() on an instance that is already provisioned returns
\* the address of the instance and leaves its serialized configuration
\* unchanged, for every variant.
C28_ProvisionIdempotent ==
    [][\A p \in CallIds, generated \in Secrets :
          (Provision(p, generated) /\ isInitialized(calls[p].adapter)) =>
              /\ calls'[p].adapter.returned = calls[p].adapter.address
              /\ toJSON(calls'[p].adapter) = toJSON(calls[p].adapter)]_vars

\* ------------------------------------------------------------- configure_adapter and create_wallet

\* The managed providers.
ManagedProviders == {"privy", "coinbase-cdp", "crossmint"}

\* The credentials a caller passes: all keys of the provider, or not all.
CredentialSets == {"complete", "incomplete"}

\* The tool configure_adapter(adapter, credentials): without all keys of
\* the provider it throws, otherwise it builds the adapter and stores it
\* with setAdapter.
ConfigureAdapter(p, type, credentials) ==
    /\ alive
    /\ Free(p)
    /\ IF credentials # "complete"
       THEN /\ calls' = [calls EXCEPT ![p] =
                    Fail([IdleCall EXCEPT !.op = "configure_adapter"], "missing-credentials")]
            /\ UNCHANGED pendingAdapter
       ELSE /\ calls' = [calls EXCEPT ![p] =
                    [IdleCall EXCEPT !.op = "configure_adapter", !.pc = "done"]]
            /\ pendingAdapter' = [type |-> type, credentials |-> credentials]
    /\ UNCHANGED <<wallets, activeWalletId, network, disk, paymentSessions, now,
                   nextId, started, alive, demoMode, hist>>

\* createWallet(adapterType, credentials, label) of the wallet manager up
\* to the construction of the adapter: the error it throws, or NULL.  A
\* managed provider needs its keys in credentials.
CredentialsError(type, credentials) ==
    IF type \in ManagedProviders /\ credentials # "complete"
    THEN "missing-credentials" ELSE NULL

\* createWallet(adapterType, credentials, label) called by a binding.
CreateWalletCall(p, type, credentials) ==
    /\ alive
    /\ Free(p)
    /\ nextId.wallet <= MaxWallets
    /\ IF CredentialsError(type, credentials) # NULL
       THEN /\ calls' = [calls EXCEPT ![p] =
                    Fail([IdleCall EXCEPT !.op = "create_wallet"],
                         CredentialsError(type, credentials))]
            /\ UNCHANGED <<wallets, activeWalletId, nextId, disk>>
       ELSE /\ wallets' = Append(wallets, [NewEntry(nextId.wallet, type) EXCEPT
                                               !.label = DefaultLabel(Len(wallets) + 1)])
            /\ activeWalletId' = nextId.wallet
            /\ nextId' = [nextId EXCEPT !.wallet = @ + 1]
            /\ disk' = Persisted(wallets', activeWalletId', network)
            /\ calls' = [calls EXCEPT ![p] =
                    [IdleCall EXCEPT !.op = "create_wallet", !.pc = "done",
                                     !.adapter = [wallet |-> nextId.wallet, type |-> type]]]
    /\ UNCHANGED <<network, paymentSessions, now, started, alive, pendingAdapter,
                   demoMode, hist>>

\* The tool create_wallet(adapter, label): createWallet(adapter, undefined, label).
ToolCreateWallet(p, type) == CreateWalletCall(p, type, NULL)

\* POST /api/wallets with adapter and credentials in the body.
ApiCreateWallet(p, type, credentials) == CreateWalletCall(p, type, credentials)

\* Callers of the stdio tools configure_adapter and create_wallet, and of
\* the HTTP route that creates a wallet.
NextConfigure ==
    \/ \E p \in CallIds, type \in ManagedProviders, credentials \in CredentialSets :
            ConfigureAdapter(p, type, credentials)
    \/ \E p \in CallIds, type \in ManagedProviders \cup {"local-key"} :
            ToolCreateWallet(p, type)
    \/ \E p \in CallIds, type \in ManagedProviders, credentials \in CredentialSets :
            ApiCreateWallet(p, type, credentials)

SpecConfigure == Init /\ [][NextConfigure]_vars

\* C29: after configure_adapter succeeded for a managed provider, the
\* tool create_wallet for that provider provisions a wallet of that
\* provider; it does not fail for missing credentials.
C29_ConfiguredAdapterUsed ==
    [][\A p \in CallIds, type \in ManagedProviders :
          (ToolCreateWallet(p, type) /\ pendingAdapter.type = type) =>
              /\ calls'[p].pc = "done"
              /\ Len(wallets') = Len(wallets) + 1
              /\ wallets'[Len(wallets')].adapter = type]_vars

\* ------------------------------------------------------------- the order of the options

\* An option for "eip155:1", a chain the broker does not know.
UnknownChainOption(amount) ==
    [Option("eip155:1", amount) EXCEPT !.asset = [chain |-> "other", mixedCase |-> TRUE]]

\* Accepts lists of several options; the amount tells the options of a
\* list apart.
OrderedAcceptsLists ==
    { <<Option(CAIP2_BASE, 2), Option(CAIP2_SEPOLIA, 3)>>,
      <<Option(CAIP2_SEPOLIA, 2), Option(CAIP2_BASE, 3)>>,
      <<[Option(CAIP2_BASE, 1) EXCEPT !.scheme = "upto"], Option(CAIP2_SEPOLIA, 2),
        Option(CAIP2_BASE, 3)>>,
      <<UnknownChainOption(1), Option(CAIP2_BASE, 2), Option(CAIP2_BASE, 3)>>,
      <<[Option(CAIP2_BASE, 1) EXCEPT !.asset = [chain |-> CAIP2_SEPOLIA, mixedCase |-> FALSE]],
        [Option(CAIP2_BASE, 2) EXCEPT !.asset = [chain |-> CAIP2_BASE, mixedCase |-> FALSE]]>>,
      <<UnknownChainOption(1), [Option(CAIP2_SEPOLIA, 2) EXCEPT !.scheme = "upto"]>>,
      <<>> }

OrderedResponses == { PaymentRequired(a) : a \in OrderedAcceptsLists }

\* One wallet without limits, the selected network changed between the
\* payments of one caller to a server that offers several options.
NextOrdered ==
    \/ \E net \in NetworkIds : SetNetwork(net)
    \/ \E h \in FlowHosts : x402FetchStart("c1", h)
    \/ \E resp \in OrderedResponses : x402FetchNegotiated("c1", resp)
    \/ x402FetchSigned("c1")
    \/ \E h \in FlowHosts : x402PrepareStart("c1", h)
    \/ \E resp \in OrderedResponses : x402PrepareNegotiated("c1", resp)
    \/ \E resp \in PlainRetryResponses : RetryReturned("c1", resp)

SpecOrdered == InitOneWallet /\ [][NextOrdered]_vars

\* Option i is the first option of the list the broker can fulfil.
FirstFulfillable(accepts, i) ==
    /\ i \in 1..Len(accepts)
    /\ Fulfillable(accepts[i])
    /\ \A j \in 1..(i - 1) : ~Fulfillable(accepts[j])

\* C30: negotiate selects the first option, in the order of accepts, with
\* scheme exact, a recognized chain and the USDC contract of that chain in
\* any case, and fails with no-compatible-option when there is none; the
\* network guard looks at the selected option only: when that option is
\* on another network than the selected one the outcome is
\* network-mismatch, whatever options follow it.
C30_FirstCompatibleOption ==
    [][\A p \in CallIds, resp \in OrderedResponses :
          Negotiated(p, resp) =>
              /\ (\A i \in 1..Len(resp.accepts) : ~Fulfillable(resp.accepts[i]))
                    => FailsUntouched(p, "no-compatible-option")
              /\ \A i \in 1..Len(resp.accepts) :
                    FirstFulfillable(resp.accepts, i) =>
                        /\ calls'[p].accepted = resp.accepts[i]
                        /\ IF resp.accepts[i].network # getNetworkCaip2
                           THEN FailsUntouched(p, "network-mismatch")
                           ELSE calls'[p].pc # "failed"]_vars

\* With base-sepolia selected, a call was refused with network-mismatch on
\* the first option (eip155:8453) of a list whose second option is for
\* eip155:84532, after an earlier call was recorded in the ledger with the
\* option it selected.
C30_Witness ==
    /\ network = "base-sepolia"
    /\ \E i \in 1..Len(hist.tx) : hist.tx[i].atomic = 2
    /\ calls["c1"].err = "network-mismatch"
    /\ calls["c1"].accepted = Option(CAIP2_BASE, 2)
    /\ NoTrace(calls["c1"])


\* ------------------------------------------------------------- enforcement order

\* A ledger record of atomic amount a, as addTransaction and
\* updateTransaction leave it.
LedgerRecord(id, a, status, timestamp) ==
    [id |-> id, timestamp |-> timestamp, service |-> <<"c">>,
     amount |-> FormatUnits(a, 6), network |-> CAIP2_BASE,
     txHash |-> NULL, status |-> status, reason |-> "x402 payment"]

\* The ledgers enforce is applied to, each record given by its atomic
\* amount, status and timestamp: empty, one record of either amount,
\* status and day, and such a record followed by a settled one of today.
EnforceLedgers ==
    LET first == [atomic : Amounts, status : {"settled", "failed"}, timestamp : {0, MaxTime}]
    IN  { <<>> }
        \cup { <<f>> : f \in first }
        \cup { <<f, [atomic |-> 1, status |-> "settled", timestamp |-> 0]>> : f \in first }

\* The rules records enforce is applied to.
EnforceRuleRecords ==
    [maxPerTransaction : Limits \cup {NullStr}, dailyCap : Limits \cup {NullStr},
     allowedServices : {<<>>} \cup { <<pt>> : pt \in Patterns },
     blockedServices : {<<>>} \cup { <<pt>> : pt \in Patterns }]

\* The atomic amounts of the offers enforce is applied to.
EnforceAmounts == 0..4

\* The state in which one call of enforceRules is about to be made: one
\* wallet with any rules record and any ledger, any amount and service.
InitEnforce ==
    /\ \E rules \in EnforceRuleRecords, ledger \in EnforceLedgers,
          amount \in EnforceAmounts, service \in Hosts :
           /\ wallets = <<[NewEntry(1, "local-key") EXCEPT
                              !.rules = rules,
                              !.transactions =
                                  [i \in 1..Len(ledger) |->
                                      LedgerRecord(i, ledger[i].atomic, ledger[i].status,
                                                   ledger[i].timestamp)]]>>
           /\ hist = [tx |-> [i \in 1..Len(ledger) |-> NewTxHist(ledger[i].atomic)],
                      session |-> <<>>, removed |-> <<>>,
                      amount |-> amount, service |-> service, result |-> NULL]
    /\ activeWalletId = 1
    /\ network = "base"
    /\ disk = Persisted(wallets, 1, "base")
    /\ paymentSessions = <<>>
    /\ now = 0
    /\ calls = [p \in CallIds |-> IdleCall]
    /\ nextId = [wallet |-> 2, tx |-> 3, session |-> 1]
    /\ started = 0
    /\ alive = TRUE
    /\ pendingAdapter = NoPendingAdapter
    /\ demoMode = FALSE

\* One call enforceRules(amountAtomic, service): its result is noted.
Enforce ==
    /\ alive
    /\ hist.result = NULL
    /\ hist' = [hist EXCEPT !.result = enforceRules(hist.amount, hist.service)]
    /\ UNCHANGED <<wallets, activeWalletId, network, disk, paymentSessions, now, calls,
                   nextId, started, alive, pendingAdapter, demoMode>>

NextEnforce ==
    \/ Tick
    \/ Enforce

SpecEnforce == InitEnforce /\ [][NextEnforce]_vars

\* The first violated check in the fixed order, "ok" when there is none.
FirstViolated(entry, amount, service) ==
    LET mpt == entry.rules.maxPerTransaction
        cap == entry.rules.dailyCap
    IN
    IF mpt # NullStr /\ amount > LimitTimesMillion(mpt) THEN "over-per-tx"
    ELSE IF cap # NullStr
            /\ SettledTodayAtomic(entry.transactions) + amount > LimitTimesMillion(cap)
    THEN "over-daily"
    ELSE IF \E b \in 1..Len(entry.rules.blockedServices) :
                CaseInsensitiveSubstring(entry.rules.blockedServices[b], service)
    THEN "blocked"
    ELSE IF /\ entry.rules.allowedServices # <<>>
            /\ ~\E a \in 1..Len(entry.rules.allowedServices) :
                    CaseInsensitiveSubstring(entry.rules.allowedServices[a], service)
    THEN "not-allowed"
    ELSE "ok"

\* C31: enforce succeeds exactly when none of the four checks is violated,
\* and otherwise reports the first violated one in the order
\* per-transaction, daily cap, blocklist, allowlist; an amount equal to the
\* per-transaction limit passes that check.
C31_EnforceOrder ==
    [][Enforce => hist'.result = FirstViolated(wallets[1], hist.amount, hist.service)]_vars

\* Enforce reported over-daily for an amount equal to the per-transaction
\* limit and a service the blocklist matches.
C31_Witness ==
    /\ hist.result = "over-daily"
    /\ wallets[1].rules.maxPerTransaction # NullStr
    /\ hist.amount = LimitTimesMillion(wallets[1].rules.maxPerTransaction)
    /\ \E b \in 1..Len(wallets[1].rules.blockedServices) :
           CaseInsensitiveSubstring(wallets[1].rules.blockedServices[b], hist.service)
    /\ Len(wallets[1].transactions) = 2


\* ------------------------------------------------------------- partial update of the rules

\* The patches of PUT /api/rules: each field absent or present, the
\* per-transaction limit present as null or as a decimal string.
PartialPatches ==
    LET limit == <<"0", ".", "0", "0", "0", "0", "0", "2">>
        mpt == { {} } \cup { {<<"maxPerTransaction", v>>} : v \in {NullStr, limit} }
        cap == { {}, {<<"dailyCap", limit>>} }
        alw == { {}, {<<"allowedServices", <<<<"A">>>>>>} }
        blk == { {}, {<<"blockedServices", <<<<"b">>>>>>} }
    IN  { a \cup b \cup c \cup d : a \in mpt, b \in cap, c \in alw, d \in blk }

\* Two wallets, either of them active, frozen or not, one of them with a
\* ledger record, and the rules of the active one patched.
NextPatch ==
    \/ CreateWallet("local-key")
    \/ \E id \in 1..MaxWallets : SwitchWallet(id)
    \/ \E f \in BOOLEAN : SetFrozen(f)
    \/ \E patch \in PartialPatches : SetRules(patch)
    \/ \E h \in FlowHosts : started = 0 /\ x402PrepareStart("c1", h)
    \/ x402PrepareNegotiated("c1", PaymentRequired(<<Option(CAIP2_BASE, 1)>>))

SpecPatch == Init /\ [][NextPatch]_vars

\* The patch has the field.
Present(patch, f) == \E pr \in patch : pr[1] = f

\* The value the patch has for the field.
ValueIn(patch, f) == (CHOOSE pr \in patch : pr[1] = f)[2]

\* C32: setRules(patch) replaces exactly the rule fields present in the
\* patch, a present null clearing a limit, on the active wallet; the fields
\* absent from the patch, the ledger and the frozen flag of that wallet and
\* every other wallet stay as they are.
C32_SetRulesPartial ==
    [][\A patch \in PartialPatches :
          SetRules(patch) =>
              LET i == ActiveIndex(wallets, activeWalletId) IN
              /\ Len(wallets') = Len(wallets)
              /\ \A f \in {"maxPerTransaction", "dailyCap", "allowedServices", "blockedServices"} :
                     wallets'[i].rules[f] = IF Present(patch, f) THEN ValueIn(patch, f)
                                            ELSE wallets[i].rules[f]
              /\ wallets'[i].transactions = wallets[i].transactions
              /\ wallets'[i].frozen = wallets[i].frozen
              /\ \A j \in 1..Len(wallets) : j # i => wallets'[j] = wallets[j]]_vars

\* The active one of two wallets, frozen and with a ledger record, has its
\* per-transaction limit cleared and its blocklist kept, while the other
\* wallet has a daily cap.
C32_Witness ==
    /\ Len(wallets) = 2
    /\ activeWalletId = 2
    /\ wallets[2].frozen
    /\ Len(wallets[2].transactions) = 1
    /\ wallets[2].rules.maxPerTransaction = NullStr
    /\ wallets[2].rules.dailyCap # NullStr
    /\ wallets[2].rules.blockedServices # <<>>
    /\ wallets[1].rules.dailyCap # NullStr
    /\ wallets[1].rules.blockedServices = <<>>


\* ------------------------------------------------------------- not-found errors

\* Nothing was thrown by switchWallet or removeWallet yet.
NothingThrown == [op |-> NULL, id |-> NoId, err |-> NULL]

\* The state after startup without a state file; the history also holds
\* the last error switchWallet or removeWallet threw.
InitThrows ==
    /\ wallets = <<>>
    /\ activeWalletId = NoId
    /\ network = "base"
    /\ disk = Persisted(<<>>, NoId, "base")
    /\ paymentSessions = <<>>
    /\ now = 0
    /\ calls = [p \in CallIds |-> IdleCall]
    /\ nextId = [wallet |-> 1, tx |-> 1, session |-> 1]
    /\ started = 0
    /\ alive = TRUE
    /\ pendingAdapter = NoPendingAdapter
    /\ demoMode = FALSE
    /\ hist = [tx |-> <<>>, session |-> <<>>, removed |-> <<>>, thrown |-> NothingThrown]

\* switchWallet(walletId) for an id that find does not meet in the list:
\* the throw.
SwitchWalletNotFound(id) ==
    /\ alive
    /\ WalletIndex(wallets, id) = 0
    /\ hist' = [hist EXCEPT !.thrown = [op |-> "switchWallet", id |-> id,
                                        err |-> "wallet-not-found"]]
    /\ UNCHANGED <<wallets, activeWalletId, network, disk, paymentSessions, now, calls,
                   nextId, started, alive, pendingAdapter, demoMode>>

\* removeWallet without the test of the index: splice(-1, 1) drops the
\* last wallet of the list.
RemoveWalletUnchecked(id) ==
    /\ alive
    /\ WalletIndex(wallets, id) = 0
    /\ wallets' = SubSeq(wallets, 1, Len(wallets) - 1)
    /\ disk' = Persisted(wallets', activeWalletId, network)
    /\ hist' = [hist EXCEPT !.thrown = [op |-> "removeWallet", id |-> id, err |-> NULL]]
    /\ UNCHANGED <<activeWalletId, network, paymentSessions, now, calls,
                   nextId, started, alive, pendingAdapter, demoMode>>

\* removeWallet(walletId) for an id findIndex does not meet in the list:
\* the throw.
RemoveWalletNotFound(id) ==
    /\ alive
    /\ WalletIndex(wallets, id) = 0
    /\ hist' = [hist EXCEPT !.thrown = [op |-> "removeWallet", id |-> id,
                                        err |-> "wallet-not-found"]]
    /\ UNCHANGED <<wallets, activeWalletId, network, disk, paymentSessions, now, calls,
                   nextId, started, alive, pendingAdapter, demoMode>>

\* Wallets created, switched and removed, by ids of the list and by
\* others, around the prepared payments of one caller.
NextThrows ==
    \/ CreateWallet("local-key")
    \/ \E id \in 1..MaxWallets : SwitchWallet(id)
    \/ \E id \in 1..MaxWallets : RemoveWallet(id)
    \/ \E id \in 1..MaxWallets : SwitchWalletNotFound(id)
    \/ \E id \in 1..MaxWallets : RemoveWalletNotFound(id)
    \/ Tick
    \/ \E h \in FlowHosts : x402PrepareStart("c1", h)
    \/ x402PrepareNegotiated("c1", PaymentRequired(<<Option(CAIP2_BASE, 1)>>))
    \/ \E sid \in 1..MaxPayments : x402CompleteStart("c1", sid)
    \/ \E resp \in PlainRetryResponses : RetryReturned("c1", resp)

SpecThrows == InitThrows /\ [][NextThrows]_vars

\* There is an active wallet and its ledger has no record with this id.
NotInActiveLedger(id) ==
    LET i == ActiveIndex(wallets, activeWalletId) IN
    /\ i # 0
    /\ \A k \in 1..Len(wallets[i].transactions) : wallets[i].transactions[k].id # id

\* The document in memory and the state file are as before the step.
DocumentUntouched == UNCHANGED <<wallets, activeWalletId, network, disk>>

\* C33: switchWallet and removeWallet with an id that is not in the list,
\* and a ledger update with a transaction id that is not in the active
\* wallet's ledger, fail with a not-found error and leave the document in
\* memory and the state file unchanged.
C33_NotFoundLeavesNoTrace ==
    [][/\ \A id \in 1..MaxWallets :
              (SwitchWalletNotFound(id) \/ RemoveWalletNotFound(id))
              => /\ hist'.thrown.err = "wallet-not-found"
                 /\ DocumentUntouched
       /\ \A p \in CallIds, resp \in PlainRetryResponses :
              (RetryReturned(p, resp) /\ NotInActiveLedger(calls[p].txId))
              => /\ calls'[p].pc = "failed" /\ calls'[p].err = "tx-not-found"
                 /\ DocumentUntouched
       /\ \A p \in CallIds, sid \in 1..MaxPayments :
              (/\ x402CompleteStart(p, sid)
               /\ InTable(sid)
               /\ Expired(paymentSessions[SessionIndex(paymentSessions, sid)])
               /\ NotInActiveLedger(paymentSessions[SessionIndex(paymentSessions, sid)].txRecordId))
              => /\ calls'[p].pc = "failed" /\ calls'[p].err = "tx-not-found"
                 /\ DocumentUntouched]_vars

\* removeWallet threw for an id that is not in the list of one wallet, and
\* the update of a retry response threw for a record that is in no ledger
\* of the document.
C33_Witness ==
    /\ hist.thrown.op = "removeWallet"
    /\ hist.thrown.err = "wallet-not-found"
    /\ Len(wallets) = 1
    /\ \E p \in CallIds :
           /\ calls[p].err = "tx-not-found"
           /\ calls[p].retries = 1
           /\ HolderOf(wallets, calls[p].txId) = 0


\* ------------------------------------------------------------- daily cap under concurrency

\* The daily cap of the wallet: 0.000002 USDC, two atomic units.
CappedRules == [DEFAULT_RULES EXCEPT !.dailyCap = <<"0", ".", "0", "0", "0", "0", "0", "2">>]

\* The state after startup on a state file that holds one local-key wallet
\* with a daily cap and an empty ledger.
InitCapped ==
    /\ wallets = <<[NewEntry(1, "local-key") EXCEPT !.rules = CappedRules]>>
    /\ activeWalletId = 1
    /\ network = "base"
    /\ disk = Persisted(wallets, 1, "base")
    /\ paymentSessions = <<>>
    /\ now = 0
    /\ calls = [p \in CallIds |-> IdleCall]
    /\ nextId = [wallet |-> 2, tx |-> 1, session |-> 1]
    /\ started = 0
    /\ alive = TRUE
    /\ pendingAdapter = NoPendingAdapter
    /\ demoMode = FALSE
    /\ hist = [tx |-> <<>>, session |-> <<>>, removed |-> <<>>]

\* The 402 documents of the payments against the cap.
CappedResponses == { PaymentRequired(<<Option(CAIP2_BASE, a)>>) : a \in Amounts }

\* Payments of two callers on the one wallet, its rules left alone.
NextCapped ==
    \/ Tick
    \/ \E p \in CallIds, h \in FlowHosts : x402FetchStart(p, h)
    \/ \E p \in CallIds, resp \in CappedResponses : x402FetchNegotiated(p, resp)
    \/ \E p \in CallIds : x402FetchSigned(p)
    \/ \E p \in CallIds, h \in FlowHosts : x402PrepareStart(p, h)
    \/ \E p \in CallIds, resp \in CappedResponses : x402PrepareNegotiated(p, resp)
    \/ \E p \in CallIds, sid \in 1..MaxPayments : x402CompleteStart(p, sid)
    \/ \E p \in CallIds, resp \in PlainRetryResponses : RetryReturned(p, resp)

SpecCapped == InitCapped /\ [][NextCapped]_vars

\* C34: with dailyCap set to X on a wallet and not changed, the atomic sum
\* of the wallet's settled transactions dated the current UTC day is at
\* most X * 10^6 in every reachable state, also with several pay or
\* payPrepare / payComplete flows on the wallet in flight at once.
C34_DailyCapNeverExceeded ==
    SettledTodayAtomic(wallets[1].transactions)
        <= LimitTimesMillion(wallets[1].rules.dailyCap)


\* ------------------------------------------------------------- the wallet of a payment

\* C35: the ledger record of a payment made by pay is in the ledger of the
\* wallet whose adapter produced the signature, the wallet that was active
\* and checked for frozen when pay was called, whatever switchWallet or
\* createWallet did while the pay awaited the upstream response or the
\* signature.
C35_RecordInSigningWallet ==
    \A p \in CallIds :
        (calls[p].op = "pay" /\ calls[p].txId # NoId) =>
            /\ HolderOf(wallets, calls[p].txId) # 0
            /\ wallets[HolderOf(wallets, calls[p].txId)].id = calls[p].adapter.wallet


\* ------------------------------------------------------------- sessions and their records

\* C36: for every session in the payment-session table, a transaction with
\* the session's txRecordId is in the ledger of some wallet and has status
\* pending, also after switchWallet or removeWallet.
C36_SessionHasPendingRecord ==
    \A i \in 1..Len(paymentSessions) :
        /\ HolderOf(wallets, paymentSessions[i].txRecordId) # 0
        /\ TxOf(wallets, paymentSessions[i].txRecordId).status = "pending"


\* ------------------------------------------------------------- the sign of an amount

\* The 402 documents of an upstream server that states its amount as any
\* integer string.
SignedAmountResponses == { PaymentRequired(<<Option(CAIP2_BASE, a)>>) : a \in {-1, 1, 2} }

\* Prepared payments of one caller on a wallet with a daily cap, completed
\* with the signature of the client.
NextSigned ==
    \/ Tick
    \/ \E h \in FlowHosts : x402PrepareStart("c1", h)
    \/ \E resp \in SignedAmountResponses : x402PrepareNegotiated("c1", resp)
    \/ \E sid \in 1..MaxPayments : x402CompleteStart("c1", sid)
    \/ \E resp \in PlainRetryResponses : RetryReturned("c1", resp)

SpecSigned == InitCapped /\ [][NextSigned]_vars

\* C37: every transaction appended to a ledger has a non-negative amount,
\* and the todaySpent of a wallet does not decrease while the UTC date
\* stays the same, whatever integer the upstream server states as the
\* amount of its offer.
C37_AmountsNonNegative ==
    [][/\ \A k \in 1..Len(wallets'[1].transactions) :
              wallets'[1].transactions[k].amount[1] # "-"
       /\ DateOf(now') = DateOf(now) =>
              SumSettledToday(wallets'[1].transactions, DateOf(now'))
                  >= SumSettledToday(wallets[1].transactions, DateOf(now))]_vars


\* ------------------------------------------------------------- frame of the active-wallet operations

\* Two wallets, either of them active, changed by every operation on the
\* active wallet and by one payment, on either network.
NextFrame ==
    \/ CreateWallet("local-key")
    \/ \E id \in 1..MaxWallets : SwitchWallet(id)
    \/ \E net \in NetworkIds : SetNetwork(net)
    \/ RenameWallet(CustomLabel("Treasury"))
    \/ \E f \in BOOLEAN : SetFrozen(f)
    \/ \E patch \in DurablePatches : SetRules(patch)
    \/ SetAgentIdentity([name |-> "n1", agentId |-> "7"])
    \/ \E h \in FlowHosts : started = 0 /\ x402FetchStart("c1", h)
    \/ \E resp \in DurableResponses : x402FetchNegotiated("c1", resp)
    \/ x402FetchSigned("c1")
    \/ \E resp \in DurableRetryResponses : RetryReturned("c1", resp)

SpecFrame == Init /\ [][NextFrame]_vars

\* The step is a call of setRules, freezeWallet, unfreezeWallet,
\* renameWallet or setAgentIdentity, or the segment of a payment that
\* calls addTransaction or updateTransaction.
ActiveWalletOperation ==
    \/ \E patch \in DurablePatches : SetRules(patch)
    \/ \E f \in BOOLEAN : SetFrozen(f)
    \/ RenameWallet(CustomLabel("Treasury"))
    \/ \E identity \in Identities : SetAgentIdentity(identity)
    \/ x402FetchSigned("c1")
    \/ \E resp \in DurableRetryResponses : RetryReturned("c1", resp)

\* C38: setRules, freeze, unfreeze, renameWallet, setAgentIdentity, the
\* ledger add and the ledger update change only the wallet entry that is
\* active when they are called: every other wallet entry, activeWalletId
\* and the network selection stay as they are.
C38_OnlyActiveWalletChanges ==
    [][ActiveWalletOperation =>
          /\ activeWalletId' = activeWalletId
          /\ network' = network
          /\ Len(wallets') = Len(wallets)
          /\ \A j \in 1..Len(wallets) :
                 j # ActiveIndex(wallets, activeWalletId) => wallets'[j] = wallets[j]]_vars

\* The second of two wallets is active, renamed, frozen, with a daily cap,
\* an identity and a settled ledger record, on base-sepolia; the first is
\* as createWallet left it.
C38_Witness ==
    /\ Len(wallets) = 2
    /\ activeWalletId = 2
    /\ network = "base-sepolia"
    /\ wallets[1] = NewEntry(1, "local-key")
    /\ wallets[2].id = 2
    /\ wallets[2].label = CustomLabel("Treasury")
    /\ wallets[2].frozen
    /\ wallets[2].rules.dailyCap # NullStr
    /\ wallets[2].agentIdentity # NoIdentity
    /\ Len(wallets[2].transactions) = 1
    /\ wallets[2].transactions[1].status = "settled"


\* ------------------------------------------------------------- pay with the browser adapter

\* C39: a pay call made while the active wallet uses the browser adapter,
\* whose upstream answered 402 with an offer that negotiate accepted, fails
\* with must-sign-client-side at its signing call; it sends no retry
\* request and appends no ledger record.
C39_BrowserPayFails ==
    \A p \in CallIds :
        (/\ calls[p].op = "pay"
         /\ calls[p].adapter.type = "browser"
         /\ calls[p].enf = "ok")
        => /\ \/ calls[p].pc = "awaitSign"
              \/ calls[p].pc = "failed" /\ calls[p].err = "must-sign-client-side"
           /\ calls[p].retries = 0
           /\ calls[p].appends = 0
           /\ calls[p].txId = NoId

\* A pay call of a browser wallet has failed with must-sign-client-side
\* after its offer passed negotiate, and another wallet is active now.
C39_Witness ==
    \E p \in CallIds :
        /\ calls[p].op = "pay"
        /\ calls[p].adapter.type = "browser"
        /\ calls[p].enf = "ok"
        /\ calls[p].pc = "failed"
        /\ calls[p].err = "must-sign-client-side"
        /\ activeWalletId # calls[p].adapter.wallet

=============================================================================
